---- MODULE Spec2Model ----
(***************************************************************************)
(* Media metadata and derived-asset pipeline of the video library:         *)
(* VideoService (frontend/lib/video-service.ts), its server actions        *)
(* (frontend/lib/actions.ts), the file utilities and the asset route       *)
(* (frontend/app/api/[...path]/route.ts).                                  *)
(*                                                                         *)
(* Strings the code takes apart (file names, URL paths, Range headers) are *)
(* sequences of tokens: a token is either a separator character ("." "/"   *)
(* "-" "_" ...) or a non-empty chunk without separators ("a", "mp4").      *)
(* An optional value is <<>> when undefined and <<v>> when present.        *)
(***************************************************************************)
EXTENDS Integers, Sequences, FiniteSets, TLC

\* ------------------------------------------------------------ bounds ----
MaxFiles == 3        \* longest directory listing
MaxProbeCalls == 5   \* the probe-call counter saturates here
MaxTime == 3         \* last clock tick
TicksPerMs == 2      \* clock ticks per millisecond (mtimeMs has a fraction)
MaxNameLen == 3      \* longest request path below the resource class, in tokens
MaxRangeLen == 4     \* longest Range header, in tokens
MaxFileSize == 3     \* largest asset, in bytes
MaxCalls == 2        \* direct activations of ensureThumbnail in one run
MaxSeconds == 70     \* longest of the consecutive durations a timestamp is picked for

\* ----------------------------------------------------------- helpers ----
Min(a, b) == IF a < b THEN a ELSE b

Max(a, b) == IF a > b THEN a ELSE b

Undefined == <<>>

Some(v) == <<v>>

\* sequences over S of length 0..n
SeqUpTo(S, n) == UNION {[1..k -> S] : k \in 0..n}

NoDup(s) == \A i, j \in 1..Len(s) : i # j => s[i] # s[j]

\* index of the last occurrence of token t in s, 0 when there is none
LastIndexOf(s, t) ==
  IF \E i \in 1..Len(s) : s[i] = t
  THEN CHOOSE i \in 1..Len(s) : s[i] = t /\ \A j \in (i+1)..Len(s) : s[j] # t
  ELSE 0

\* String.prototype.includes for a two-token needle
includes2(s, a, b) == \E i \in 1..(Len(s) - 1) : s[i] = a /\ s[i+1] = b

startsWith(s, t) == Len(s) > 0 /\ s[1] = t

\* ------------------------------------------------------- file-utils ----
toLowerCase(s) ==
  [i \in 1..Len(s) |->
     CASE s[i] = "MP4" -> "mp4"
       [] s[i] = "MKV" -> "mkv"
       [] s[i] = "JPG" -> "jpg"
       [] OTHER -> s[i]]

\* fileName.split('.').pop()?.toLowerCase() || ''
getFileExtension(fileName) ==
  toLowerCase(SubSeq(fileName, LastIndexOf(fileName, ".") + 1, Len(fileName)))

\* fileName.replace(/\.[^/.]+$/, '')
getBaseName(fileName) ==
  LET d == LastIndexOf(fileName, ".")
  IN IF d > 0 /\ d < Len(fileName)
        /\ \A j \in (d+1)..Len(fileName) : fileName[j] # "/"
     THEN SubSeq(fileName, 1, d - 1)
     ELSE fileName

\* the static extension -> MIME table
MIME_TYPES ==
  (<<"mp4">> :> "video/mp4") @@ (<<"webm">> :> "video/webm") @@
  (<<"mov">> :> "video/quicktime") @@ (<<"avi">> :> "video/x-msvideo") @@
  (<<"mkv">> :> "video/x-matroska") @@
  (<<"webp">> :> "image/webp") @@ (<<"png">> :> "image/png") @@
  (<<"jpg">> :> "image/jpeg") @@ (<<"jpeg">> :> "image/jpeg")

\* extension && Object.prototype.hasOwnProperty.call(MIME_TYPES, extension)
supported(fileName) ==
  LET extension == getFileExtension(fileName)
  IN extension # <<>> /\ extension \in DOMAIN MIME_TYPES

\* MIME_TYPES[extension] || 'video/mp4'
mimeTypeOf(fileName) ==
  LET extension == getFileExtension(fileName)
  IN IF extension \in DOMAIN MIME_TYPES THEN MIME_TYPES[extension] ELSE "video/mp4"

\* getBaseName(file).replace(/[_-]/g, ' ')
titleOf(fileName) ==
  LET b == getBaseName(fileName)
  IN [i \in 1..Len(b) |-> IF b[i] \in {"_", "-"} THEN " " ELSE b[i]]

\* ---------------------------------------------------- probe adapter ----
\* A duration field of the probe output: undefined/null, NaN (also a string
\* that does not parse), or a number, kept in tenths of a second.
DurUndef == [kind |-> "undef", tenths |-> 0]

DurNaN == [kind |-> "nan", tenths |-> 0]

DurNum(t) == [kind |-> "num", tenths |-> t]

\* the number Infinity (also what parseFloat makes of "Infinity" or "1e999")
DurInf == [kind |-> "inf", tenths |-> 0]

\* stands for the IEEE-754 value Infinity among the whole seconds: greater
\* than every finite number of the model
Infinity == 1000000000

Reject == [ok |-> FALSE, value |-> 0]

Resolve(v) == [ok |-> TRUE, value |-> v]

\* undefined/null -> reject; NaN or <= 0 -> reject; else Math.floor, and
\* Math.floor(Infinity) is Infinity
usableDuration(duration) ==
  IF duration.kind = "undef" THEN Reject
  ELSE IF duration.kind = "inf" THEN Resolve(Infinity)
  ELSE IF duration.kind = "num" /\ duration.tenths > 0
       THEN Resolve(duration.tenths \div 10)
       ELSE Reject

\* ffprobe callback of getVideoDuration: metadata.format?.duration
getVideoDuration(meta) ==
  IF meta.err THEN Reject ELSE usableDuration(meta.format)

\* the first stream, whatever its type
getDurationFromStreamsAnyType(meta) ==
  IF meta.err THEN Reject
  ELSE IF Len(meta.streams) > 0 THEN usableDuration(meta.streams[1].duration)
       ELSE Reject

\* ffprobe callback of getDurationFromStreams: first stream of type video
getDurationFromStreams(meta) ==
  IF meta.err THEN Reject
  ELSE LET videoStreams == SelectSeq(meta.streams, LAMBDA s : s.codec_type = "video")
       IN IF Len(videoStreams) > 0 THEN usableDuration(videoStreams[1].duration)
          ELSE Reject

\* what one ffprobe run can answer
ProbeOutputs ==
  { [err |-> TRUE,  format |-> DurUndef,   streams |-> <<>>],
    [err |-> FALSE, format |-> DurUndef,
       streams |-> <<[codec_type |-> "audio", duration |-> DurNum(90)],
                     [codec_type |-> "video", duration |-> DurNum(75)]>>],
    [err |-> FALSE, format |-> DurNaN,     streams |-> <<>>],
    [err |-> FALSE, format |-> DurNum(0),  streams |-> <<>>],
    [err |-> FALSE, format |-> DurNum(5),  streams |-> <<>>],
    [err |-> FALSE, format |-> DurNum(75), streams |-> <<>>] }

\* !duration
Falsy(duration) == duration = Undefined \/ duration[1] = 0

\* ------------------------------------------------------------ state ----
VARIABLES
  dirFiles,    \* readdir(VIDEOS_DIR), in enumeration order
  noStat,      \* entries of VIDEOS_DIR whose stat fails
  thumbs,      \* THUMBNAILS_DIR: file name -> mtime in clock ticks
  now,         \* clock, in ticks
  regen,       \* the activation of regenerateMetadata
  probeCalls,  \* probe invocations for the file regenerateMetadata is on
  list,        \* the activation of getAllVideos
  calls,       \* direct activations of ensureThumbnail
  req,         \* the request the asset route is serving
  asset,       \* the file the request path names
  dirs,        \* the subdirectories of the storage root that exist
  batch,       \* the activation of processVideo in the batch script
  post,        \* the POST request /api/sprite or /api/thumbnail is serving
  generator,   \* whether generate_sprite.py exists
  calc,        \* a helper function applied on its own: input and result
  script       \* the activation of main() of the batch thumbnail script

vars ==
  <<dirFiles, noStat, thumbs, now, regen, probeCalls, list, calls, req, asset,
    dirs, batch, post, generator, calc, script>>

\* ------------------------------------------------- thumbnail cache ----
thumbnailName(file) == getBaseName(file) \o <<".", "jpg">>

thumbVariantName(file) == getBaseName(file) \o <<"_thumb", ".", "jpg">>

\* `/thumbnails/${name}?v=${Math.floor(s.mtimeMs)}`
thumbnailUrl(name, mtime) ==
  [path |-> <<"/", "thumbnails", "/">> \o name, v |-> mtime \div TicksPerMs]

\* rm(path, { force: true })
rm(th, name) == [n \in (DOMAIN th) \ {name} |-> th[n]]

\* a capture that leaves a file that is already there as it is
writeThumbKeepFirst(th, name, t) ==
  IF name \in DOMAIN th THEN th
  ELSE [n \in (DOMAIN th) \cup {name} |-> IF n = name THEN t ELSE th[n]]

\* ffmpeg screenshot written to thumbnailPath at the current time
writeThumb(th, name, t) == [n \in (DOMAIN th) \cup {name} |-> IF n = name THEN t ELSE th[n]]

\* activation record of ensureThumbnail(file, duration, force)
EtCall(file, duration, force) ==
  [pc |-> "start", file |-> file, duration |-> duration, force |-> force,
   url |-> Undefined, threw |-> FALSE, captures |-> 0]

EtReturn(e, url) == [e EXCEPT !.pc = "ret", !.url = url]

EtThrow(e) == [e EXCEPT !.pc = "ret", !.threw = TRUE]

\* without a usable duration the thumbnail is assumed to exist
EtGenerateAssumed(e) ==
  IF e.duration # Undefined /\ e.duration[1] > 0
  THEN [e EXCEPT !.pc = "capture"]
  ELSE EtReturn(e, Some([path |-> <<"/", "thumbnails", "/">> \o getBaseName(e.file) \o <<".", "jpg">>,
                         v |-> 0]))

\* if (duration && duration > 0): ensureThumbnailsDir, calculateThumbnailTime
\* and the capture is started; else return undefined
EtGenerate(e) ==
  IF e.duration # Undefined /\ e.duration[1] > 0
  THEN [e EXCEPT !.pc = "capture"]
  ELSE EtReturn(e, Undefined)

\* One step of ensureThumbnail, from one filesystem or capture call to the
\* next: the set of <<activation, thumbnails directory>> pairs it can lead to.
ensureThumbnail(e, th, t) ==
  CASE e.pc = "start" ->
         IF e.force
         THEN {<<[e EXCEPT !.pc = "rm2"], rm(th, thumbnailName(e.file))>>}
         ELSE {<<[e EXCEPT !.pc = IF thumbnailName(e.file) \in DOMAIN th
                                  THEN "stat1" ELSE "exists2"], th>>}
    [] e.pc = "rm2" ->
         {<<EtGenerate(e), rm(th, thumbVariantName(e.file))>>}
    [] e.pc = "stat1" ->
         IF thumbnailName(e.file) \in DOMAIN th
         THEN {<<EtReturn(e, Some(thumbnailUrl(thumbnailName(e.file), th[thumbnailName(e.file)]))), th>>}
         ELSE {<<EtThrow(e), th>>}
    [] e.pc = "exists2" ->
         IF thumbVariantName(e.file) \in DOMAIN th
         THEN {<<[e EXCEPT !.pc = "stat2"], th>>}
         ELSE {<<EtGenerate(e), th>>}
    [] e.pc = "stat2" ->
         IF thumbVariantName(e.file) \in DOMAIN th
         THEN {<<EtReturn(e, Some(thumbnailUrl(thumbVariantName(e.file), th[thumbVariantName(e.file)]))), th>>}
         ELSE {<<EtThrow(e), th>>}
    [] e.pc = "capture" ->
         { <<[e EXCEPT !.pc = "stat3", !.captures = @ + 1],
             writeThumb(th, thumbnailName(e.file), t)>>,
           <<EtReturn([e EXCEPT !.captures = @ + 1], Undefined), th>> }
    [] e.pc = "stat3" ->
         IF thumbnailName(e.file) \in DOMAIN th
         THEN {<<EtReturn(e, Some(thumbnailUrl(thumbnailName(e.file), th[thumbnailName(e.file)]))), th>>}
         ELSE {<<EtReturn(e, Undefined), th>>}
    [] OTHER -> {}

\* ensureThumbnailsDir, awaited on the way to the capture: stat, on failure
\* mkdir(THUMBNAILS_DIR, { recursive: true })
ensureThumbnailsDir(e, e2, d) ==
  IF e.pc # "capture" /\ e2.pc = "capture" THEN d \cup {"thumbnails"} ELSE d

\* -------------------------------------------------- the video record ----
VideoRecord(file, duration, url) ==
  [id |-> file, title |-> titleOf(file), fileName |-> file,
   duration |-> duration, thumbnailUrl |-> url,
   videoUrl |-> <<"/", "videos", "/">> \o file, mimeType |-> mimeTypeOf(file)]

EtIdle == [EtCall(<<>>, Undefined, FALSE) EXCEPT !.pc = "idle"]

\* ------------------------------------------------ the storage root ----
\* directory entries regenerateMetadata is tried on
FileNames ==
  { <<"my", "_", "b", ".", "c", ".", "MKV">>, <<"n", ".", "txt">>,
    <<"p", ".", "jpg">>, <<"mp4">> }

\* directory entries getAllVideos is tried on: two videos that share a base
\* name, so that at most two builds run side by side, and two other entries
ListFileNames ==
  { <<"a", ".", "mp4">>, <<"a", ".", "MKV">>, <<"n", ".", "txt">>, <<"notes">> }

Listings(names) == {s \in SeqUpTo(names, MaxFiles) : NoDup(s)}

Range(s) == {s[i] : i \in 1..Len(s)}

\* thumbnails directories the runs start from: at most one thumbnail, of an
\* entry of the listing, written at tick 0
ThumbDirs(files) ==
  {<<>>} \cup {n :> 0 : n \in {thumbnailName(f) : f \in Range(files)}
                              \cup {thumbVariantName(f) : f \in Range(files)}}

RegenIdle ==
  [pc |-> "idle", force |-> FALSE, files |-> <<>>, i |-> 0, attempts |-> 0,
   duration |-> Undefined, et |-> EtIdle, videos |-> <<>>, threw |-> FALSE,
   result |-> [videos |-> <<>>, videosWithoutDuration |-> 0]]

\* overtaken: some build has settled while the build of an earlier entry
\* was still running
ListIdle ==
  [pc |-> "idle", files |-> <<>>, tasks |-> <<>>, videos |-> <<>>, threw |-> FALSE,
   overtaken |-> FALSE]

Overtakes(tasks, k) == \E j \in 1..(k - 1) : tasks[j].pc # "done"

AssetNone == [exists |-> FALSE, size |-> 0]

\* no response yet
NoResponse ==
  [status |-> 0, contentRange |-> Undefined, contentLength |-> Undefined,
   acceptRanges |-> Undefined, cacheControl |-> Undefined, body |-> <<>>]

\* no request yet
ReqIdle ==
  [pc |-> "idle", pathname |-> <<>>, resourceType |-> <<>>, fileName |-> <<>>,
   range |-> Undefined, fileSize |-> Undefined, fsCalls |-> 0, res |-> NoResponse]

\* videos/, thumbnails/ and processed/ under config.storageDir
AllDirs == {"videos", "thumbnails", "processed"}

\* processVideo has not been called
BatchIdle ==
  [pc |-> "idle", file |-> <<>>, captures |-> 0, skipped |-> FALSE, success |-> FALSE,
   error |-> Undefined]

\* no POST request yet
PostIdle ==
  [pc |-> "idle", route |-> "none", body |-> Undefined, fsCalls |-> 0,
   spawned |-> 0, code |-> Undefined, status |-> 0, ok |-> FALSE,
   videoPath |-> Undefined, thumbnailUrl |-> Undefined]

\* no helper has been applied
CalcIdle ==
  [pc |-> "idle", fn |-> "none", meta |-> <<>>, out |-> Reject,
   duration |-> DurUndef, timestamp |-> 0, text |-> <<>>,
   retry |-> [attempts |-> 0, duration |-> Undefined]]

\* const results: GenerationResults = { total, generated: 0, ... }
GenerationResults(total) ==
  [total |-> total, generated |-> 0, skipped |-> 0, failed |-> 0, errors |-> <<>>]

\* main() of the batch script has not been started; processed lists the
\* calls of processVideo made so far, each with what it answered
ScriptIdle ==
  [pc |-> "idle", videoFiles |-> <<>>, i |-> 0, results |-> GenerationResults(0),
   processed |-> <<>>, exit |-> 0]

\* ------------------------------------------- regenerateMetadata ----
\* VideoService.regenerateMetadata returns
RegenDone(r) ==
  [r EXCEPT !.pc = "done",
            !.result = [videos |-> r.videos,
                        videosWithoutDuration |->
                          Cardinality({k \in 1..Len(r.videos) : Falsy(r.videos[k].duration)})]]

\* VideoService.regenerateMetadata rejects; the server action answers
\* { videos: [], videosWithoutDuration: 0 }
RegenThrew(r) ==
  [r EXCEPT !.pc = "done", !.threw = TRUE,
            !.result = [videos |-> <<>>, videosWithoutDuration |-> 0]]

\* regenerateMetadata(force) is called: readdir(VIDEOS_DIR), which rejects
\* when the directory is missing
RegenCall ==
  /\ regen.pc = "idle"
  /\ \E force \in BOOLEAN :
       regen' = IF "videos" \in dirs
                THEN [regen EXCEPT !.pc = "loop", !.force = force, !.files = dirFiles, !.i = 1]
                ELSE RegenThrew([regen EXCEPT !.force = force])
  /\ UNCHANGED <<dirFiles, noStat, thumbs, now, probeCalls, list, calls, req, asset, dirs, batch, post, generator, calc, script>>

\* top of the for loop: extension filter, then stat(filePath)
RegenNextFile ==
  /\ regen.pc = "loop"
  /\ IF regen.i > Len(regen.files)
     THEN regen' = RegenDone(regen) /\ UNCHANGED probeCalls
     ELSE LET file == regen.files[regen.i]
          IN IF supported(file)
             THEN IF file \in noStat
                  THEN regen' = RegenThrew(regen) /\ UNCHANGED probeCalls
                  ELSE /\ regen' = [regen EXCEPT !.pc = "probe", !.attempts = 0,
                                                 !.duration = Undefined]
                       /\ probeCalls' = 0
             ELSE regen' = [regen EXCEPT !.i = @ + 1] /\ UNCHANGED probeCalls
  /\ UNCHANGED <<dirFiles, noStat, thumbs, now, list, calls, req, asset, dirs, batch, post, generator, calc, script>>

maxAttempts == 3

\* one turn of the retry loop; attempts is incremented in the catch only
RetryTurn(r, outcome) ==
  IF outcome.ok
  THEN [r EXCEPT !.duration = Some(outcome.value)]
  ELSE [r EXCEPT !.attempts = @ + 1]

\* while (attempts < maxAttempts && !duration)
RetryAgain(r) == r.attempts < maxAttempts /\ Falsy(r.duration)

\* the loop body is entered: ffmpeg.ffprobe(filePath, callback) is started
RegenProbe ==
  /\ regen.pc = "probe"
  /\ regen' = [regen EXCEPT !.pc = "probing"]
  /\ probeCalls' = Min(probeCalls + 1, MaxProbeCalls)
  /\ UNCHANGED <<dirFiles, noStat, thumbs, now, list, calls, req, asset, dirs, batch, post, generator, calc, script>>

\* the probe answers: the rest of the turn, then the loop condition; the loop
\* is left into ensureThumbnail(file, duration, force)
RegenProbed ==
  /\ regen.pc = "probing"
  /\ \E meta \in ProbeOutputs :
       LET r == RetryTurn(regen, getVideoDuration(meta))
       IN regen' = IF RetryAgain(r) THEN [r EXCEPT !.pc = "probe"]
                   ELSE [r EXCEPT !.pc = "thumb",
                                  !.et = EtCall(r.files[r.i], r.duration, r.force)]
  /\ UNCHANGED <<dirFiles, noStat, thumbs, now, probeCalls, list, calls, req, asset, dirs, batch, post, generator, calc, script>>

\* ensureThumbnail has returned (or thrown): videos.push({...}), next file
RegenPush(r, e) ==
  IF e.threw THEN RegenThrew(r)
  ELSE [r EXCEPT !.pc = "loop", !.i = @ + 1, !.et = EtIdle,
                 !.videos = Append(@, VideoRecord(r.files[r.i], r.duration, e.url))]

\* ensureThumbnail runs to its next call; when it returns, the record is pushed
RegenThumb ==
  /\ regen.pc = "thumb"
  /\ \E s \in ensureThumbnail(regen.et, thumbs, now) :
       /\ regen' = IF s[1].pc = "ret" THEN RegenPush(regen, s[1])
                   ELSE [regen EXCEPT !.et = s[1]]
       /\ thumbs' = s[2]
       /\ dirs' = ensureThumbnailsDir(regen.et, s[1], dirs)
  /\ UNCHANGED <<dirFiles, noStat, now, probeCalls, list, calls, req, asset, batch, post, generator, calc, script>>

InitRegen ==
  /\ dirFiles \in Listings(FileNames)
  /\ noStat \in {{}} \cup {{f} : f \in {g \in Range(dirFiles) : supported(g)}}
  /\ thumbs \in ThumbDirs(dirFiles)
  /\ now = 0
  /\ regen = RegenIdle
  /\ probeCalls = 0
  /\ list = ListIdle
  /\ calls = <<>>
  /\ req = ReqIdle
  /\ asset = AssetNone
  /\ dirs = AllDirs
  /\ batch = BatchIdle
  /\ post = PostIdle
  /\ generator = TRUE
  /\ calc = CalcIdle
  /\ script = ScriptIdle

NextRegen ==
  RegenCall \/ RegenNextFile \/ RegenProbe \/ RegenProbed \/ RegenThumb

SpecRegen == InitRegen /\ [][NextRegen]_vars

\* every step of regenerateMetadata is a continuation the event loop runs
FairSpecRegen == SpecRegen /\ WF_vars(NextRegen)

\* the entries regenerateMetadata should answer with: supported, stat-able
Expected(files) == SelectSeq(files, LAMBDA f : supported(f) /\ f \notin noStat)

FileNamesOf(videos) == [k \in 1..Len(videos) |-> videos[k].fileName]

\* C1: regenerateMetadata invokes the duration probe at most 3 times for a
\* file, whatever the probe answers (failures, usable values, values that
\* floor to 0 seconds).
C1_AtMostThreeProbes == probeCalls <= maxAttempts

\* C2: provided every external call returns, regenerateMetadata eventually
\* returns its result.
C2_RegenTerminates == (regen.pc = "loop") ~> (regen.pc = "done")

\* C4: a supported file that cannot be stat-ed is omitted from the result of
\* regenerateMetadata and the records of all other files are still returned.
C4_RegenSkipsUnstatable ==
  regen.pc = "done" => FileNamesOf(regen.result.videos) = Expected(regen.files)

\* ------------------------------------------------------ getAllVideos ----
\* the promise of one files.map callback; value is the record or null
Task(file) ==
  [pc |-> "stat", file |-> file, duration |-> Undefined, et |-> EtIdle,
   value |-> Undefined, threw |-> FALSE]

\* the callback answers null: unsupported extension, or the catch
TaskNull(t, threw) == [t EXCEPT !.pc = "done", !.value = Undefined, !.threw = threw]

\* files.map(async (file) => ...): each callback runs up to its first await
mapFiles(files) ==
  [k \in 1..Len(files) |->
     IF supported(files[k]) THEN Task(files[k]) ELSE TaskNull(Task(files[k]), FALSE)]

\* Promise.all in place of the catch and of Promise.allSettled
settledAll(tasks) ==
  IF \E k \in 1..Len(tasks) : tasks[k].threw
  THEN [videos |-> <<>>, threw |-> TRUE]
  ELSE [videos |-> [k \in 1..Len(SelectSeq(tasks, LAMBDA t : t.value # Undefined)) |->
                      SelectSeq(tasks, LAMBDA t : t.value # Undefined)[k].value[1]],
        threw |-> FALSE]

\* the results are put in front of the list instead of at its end
settledUnshift(tasks) ==
  LET kept == SelectSeq(tasks, LAMBDA t : t.value # Undefined)
  IN [videos |-> [k \in 1..Len(kept) |-> kept[Len(kept) + 1 - k].value[1]],
      threw |-> FALSE]

\* for (const result of results) if (fulfilled && result.value) videos.push
settled(tasks) ==
  [videos |-> [k \in 1..Len(SelectSeq(tasks, LAMBDA t : t.value # Undefined)) |->
                 SelectSeq(tasks, LAMBDA t : t.value # Undefined)[k].value[1]],
   threw |-> FALSE]

\* getAllVideos() is called: readdir(VIDEOS_DIR), then files.map; readdir
\* rejects when the directory is missing and the server action answers []
ListCall ==
  /\ list.pc = "idle"
  /\ list' = IF "videos" \in dirs
             THEN [list EXCEPT !.pc = "building", !.files = dirFiles,
                               !.tasks = mapFiles(dirFiles)]
             ELSE [list EXCEPT !.pc = "done", !.videos = <<>>, !.threw = TRUE]
  /\ UNCHANGED <<dirFiles, noStat, thumbs, now, regen, probeCalls, calls, req, asset, dirs, batch, post, generator, calc, script>>

\* a task leaves the probes with its duration and enters ensureThumbnail
TaskThumb(t, duration) ==
  [t EXCEPT !.pc = "thumb", !.duration = duration, !.et = EtCall(t.file, duration, FALSE)]

\* getVideoMetadata up to ensureThumbnail: getVideoDuration on the first probe
\* run, on rejection getDurationFromStreams on a second run
probeDuration(meta, meta2) ==
  IF getVideoDuration(meta).ok THEN Some(getVideoDuration(meta).value)
  ELSE IF getDurationFromStreams(meta2).ok THEN Some(getDurationFromStreams(meta2).value)
       ELSE Undefined

\* getVideoMetadata: stat(filePath), then the probes; none of them touches
\* what another task reads
ListProbe(k) ==
  /\ list.tasks[k].pc = "stat"
  /\ \E duration \in {probeDuration(meta, meta2) : meta, meta2 \in ProbeOutputs} :
       list' = [list EXCEPT !.tasks[k] =
                  IF @.file \in noStat THEN TaskNull(@, TRUE)
                  ELSE TaskThumb(@, duration),
                             !.overtaken =
                  @ \/ (list.tasks[k].file \in noStat /\ Overtakes(list.tasks, k))]
  /\ UNCHANGED <<dirFiles, noStat, thumbs, now, regen, probeCalls, calls, req, asset, dirs, batch, post, generator, calc, script>>

\* a video whose thumbnail could not be made is left out
TaskBuiltNeedsThumbnail(t, e) ==
  IF e.threw \/ e.url = Undefined THEN TaskNull(t, e.threw)
  ELSE [t EXCEPT !.pc = "done", !.et = e,
                 !.value = Some(VideoRecord(t.file, t.duration, e.url))]

\* getVideoMetadata returns the record, or rejects and the callback's catch
\* answers null
TaskBuilt(t, e) ==
  IF e.threw THEN TaskNull(t, TRUE)
  ELSE [t EXCEPT !.pc = "done", !.et = e,
                 !.value = Some(VideoRecord(t.file, t.duration, e.url))]

\* getVideoMetadata: ensureThumbnail(file, duration) runs to its next call
ListThumb(k) ==
  /\ list.tasks[k].pc = "thumb"
  /\ \E s \in ensureThumbnail(list.tasks[k].et, thumbs, now) :
       /\ list' = [list EXCEPT !.tasks[k] =
                     IF s[1].pc = "ret" THEN TaskBuilt(@, s[1]) ELSE [@ EXCEPT !.et = s[1]],
                                !.overtaken =
                     @ \/ (s[1].pc = "ret" /\ Overtakes(list.tasks, k))]
       /\ thumbs' = s[2]
       /\ dirs' = ensureThumbnailsDir(list.tasks[k].et, s[1], dirs)
  /\ UNCHANGED <<dirFiles, noStat, now, regen, probeCalls, calls, req, asset, batch, post, generator, calc, script>>

\* every promise has settled: the results are collected and returned
ListReturn ==
  /\ list.pc = "building"
  /\ \A k \in 1..Len(list.tasks) : list.tasks[k].pc = "done"
  /\ list' = [list EXCEPT !.pc = "done", !.videos = settled(list.tasks).videos,
                          !.threw = settled(list.tasks).threw]
  /\ UNCHANGED <<dirFiles, noStat, thumbs, now, regen, probeCalls, calls, req, asset, dirs, batch, post, generator, calc, script>>

\* a forced regeneration of one video's thumbnail starts while the listing runs
ForcedRegeneration ==
  /\ calls = <<>>
  /\ \E f \in Range(dirFiles) :
       supported(f) /\ calls' = <<EtCall(f, Some(7), TRUE)>>
  /\ UNCHANGED <<dirFiles, noStat, thumbs, now, regen, probeCalls, list, req, asset, dirs, batch, post, generator, calc, script>>

\* a direct activation of ensureThumbnail runs to its next await
CallStep(c) ==
  /\ calls[c].pc # "ret"
  /\ \E s \in ensureThumbnail(calls[c], thumbs, now) :
       /\ calls' = [calls EXCEPT ![c] = s[1]] /\ thumbs' = s[2]
       /\ dirs' = ensureThumbnailsDir(calls[c], s[1], dirs)
  /\ UNCHANGED <<dirFiles, noStat, now, regen, probeCalls, list, req, asset, batch, post, generator, calc, script>>

InitList ==
  /\ dirFiles \in Listings(ListFileNames)
  /\ noStat \in SUBSET {f \in Range(dirFiles) : supported(f)}
  /\ thumbs \in ThumbDirs(dirFiles)
  /\ now = 0
  /\ regen = RegenIdle
  /\ probeCalls = 0
  /\ list = ListIdle
  /\ calls = <<>>
  /\ req = ReqIdle
  /\ asset = AssetNone
  /\ dirs = AllDirs
  /\ batch = BatchIdle
  /\ post = PostIdle
  /\ generator = TRUE
  /\ calc = CalcIdle
  /\ script = ScriptIdle

NextList ==
  \/ ListCall
  \/ \E k \in 1..Len(list.tasks) :
       ListProbe(k) \/ ListThumb(k)
  \/ ListReturn
  \/ ForcedRegeneration
  \/ \E c \in 1..Len(calls) : CallStep(c)

SpecList == InitList /\ [][NextList]_vars

\* the records of list.videos that carry the file name f
RecordsOf(f) == {k \in 1..Len(list.videos) : list.videos[k].fileName = f}

\* C3: getAllVideos returns exactly one record for each directory entry that
\* has a supported extension and whose record build succeeds; an entry with
\* an unsupported extension or a failing stat is omitted, and no per-file
\* failure makes the call throw or drops the records of the other files.
C3_ListOneRecordPerBuiltFile ==
  list.pc = "done" =>
    /\ ~list.threw
    /\ \A k \in 1..Len(list.files) :
         Cardinality(RecordsOf(list.files[k])) =
           IF /\ getFileExtension(list.files[k]) \in DOMAIN MIME_TYPES
              /\ list.files[k] \notin noStat
              /\ ~list.tasks[k].threw
           THEN 1 ELSE 0
    /\ \A j \in 1..Len(list.videos) : list.videos[j].fileName \in Range(list.files)

\* the listing has returned one record, having left out an entry with an
\* unsupported extension and an entry whose stat failed
C3_Witness ==
  /\ list.pc = "done"
  /\ Len(list.videos) = 1
  /\ \E k \in 1..Len(list.files) : ~supported(list.files[k])
  /\ \E k \in 1..Len(list.files) : list.files[k] \in noStat

\* ------------------------------------------------- the asset route ----
RECURSIVE split(_)
\* pathname.split('/')
split(str) ==
  IF str = <<>> THEN << <<>> >>
  ELSE LET rest == split(Tail(str))
       IN IF Head(str) = "/" THEN << <<>> >> \o rest
          ELSE << <<Head(str)>> \o Head(rest) >> \o Tail(rest)

\* .filter(Boolean)
filterBoolean(parts) == SelectSeq(parts, LAMBDA part : part # <<>>)

RECURSIVE join(_)
\* fileNameParts.join('/')
join(parts) ==
  IF parts = <<>> THEN <<>>
  ELSE IF Len(parts) = 1 THEN parts[1]
       ELSE parts[1] \o <<"/">> \o join(Tail(parts))

\* decodeURIComponent throws URIError: a '%' that no two hex digits follow
uriMalformed(str) == \E i \in 1..Len(str) : str[i] = "%"

\* decodeURIComponent
decodeURIComponent(str) ==
  [i \in 1..Len(str) |->
     CASE str[i] = "%2F" -> "/"
       [] str[i] = "%20" -> " "
       [] OTHER -> str[i]]

\* ['videos', 'thumbnails', 'processed']
ResourceTypes == {<<"videos">>, <<"thumbnails">>, <<"processed">>}

\* the check without its second half
traversalDotsOnly(fileName) == includes2(fileName, ".", ".")

\* fileName.includes('..') || fileName.startsWith('/')
traversal(fileName) == includes2(fileName, ".", ".") \/ startsWith(fileName, "/")

\* url.pathname up to `const filePath`: the path parts without 'api'
pathPartsOf(pathname) ==
  LET parts == filterBoolean(split(pathname))
  IN IF parts # <<>> /\ parts[1] = <<"api">> THEN Tail(parts) ELSE parts

\* the request paths tried: /api/<class>/<up to MaxNameLen tokens>. new URL()
\* has resolved the dot segments, so no segment of a pathname is "." or ".."
PathTokens == {"/", ".", "a", "%2F"}

DotSegments == {<<".">>, <<".", ".">>}

Pathnames ==
  { <<"/", "api", "/", c, "/">> \o raw :
      c \in {"videos", "thumbnails", "processed", "etc"},
      raw \in {r \in SeqUpTo(PathTokens, MaxNameLen) :
                 \A i \in 1..Len(split(r)) :
                   split(r)[i] \notin DotSegments} }

\* Range headers: null, or up to MaxRangeLen tokens
RangeTokens == {"bytes=", "0", "2", "-"}

RangeHeaders == {Undefined} \cup {Some(h) : h \in SeqUpTo(RangeTokens, MaxRangeLen)}

Digits == {"0", "2"}

DigitValue(t) == CASE t = "0" -> 0 [] t = "2" -> 2

RECURSIVE parseInt(_)
\* parseInt(digits, 10) of a non-empty run of digits
parseInt(digits) ==
  IF Len(digits) = 1 THEN DigitValue(digits[1])
  ELSE 10 * parseInt(SubSeq(digits, 1, Len(digits) - 1)) + DigitValue(digits[Len(digits)])

\* the longest run of digits of h that starts at position i
digitRun(h, i) ==
  SubSeq(h, i, CHOOSE j \in (i - 1)..Len(h) :
                  /\ \A k \in i..j : h[k] \in Digits
                  /\ (j = Len(h) \/ h[j + 1] \notin Digits))

\* a position where /bytes=(\d+)-(\d*)/ matches
matchesAt(h, i) ==
  /\ h[i] = "bytes="
  /\ digitRun(h, i + 1) # <<>>
  /\ i + Len(digitRun(h, i + 1)) < Len(h)
  /\ h[i + Len(digitRun(h, i + 1)) + 1] = "-"

\* range.match(/bytes=(\d+)-(\d*)/): null, or the two groups of the leftmost match
match(h) ==
  IF \E i \in 1..Len(h) : matchesAt(h, i)
  THEN LET i == CHOOSE i \in 1..Len(h) : matchesAt(h, i) /\ \A j \in 1..(i - 1) : ~matchesAt(h, j)
           g1 == digitRun(h, i + 1)
       IN Some([g1 |-> g1, g2 |-> digitRun(h, i + Len(g1) + 2)])
  ELSE Undefined

\* NextResponse.json({ error }, { status })
ErrorResponse(status) == [NoResponse EXCEPT !.status = status]

\* createReadStream(filePath, { start, end }): the offsets of the bytes read
readStream(start, end, fileSize) ==
  [k \in 1..Max(0, Min(end, fileSize - 1) - start + 1) |-> start + k - 1]

\* a 206 response whose chunk size is end - start
PartialResponseShort(start, end, fileSize) ==
  [NoResponse EXCEPT !.status = 206,
     !.contentRange = Some([start |-> start, end |-> end, size |-> fileSize]),
     !.acceptRanges = Some("bytes"),
     !.contentLength = Some(end - start),
     !.body = readStream(start, end - 1, fileSize)]

\* the 206 response
PartialResponse(start, end, fileSize) ==
  [NoResponse EXCEPT !.status = 206,
     !.contentRange = Some([start |-> start, end |-> end, size |-> fileSize]),
     !.acceptRanges = Some("bytes"),
     !.contentLength = Some(end - start + 1),
     !.body = readStream(start, end, fileSize)]

\* the response that serves the full file
FullResponse(resourceType, fileSize) ==
  [NoResponse EXCEPT !.status = 200,
     !.contentLength = Some(fileSize),
     !.acceptRanges = Some("bytes"),
     !.cacheControl = Some(IF resourceType = <<"videos">> THEN "no-store, max-age=0"
                           ELSE "public, max-age=31536000, immutable"),
     !.body = readStream(0, fileSize - 1, fileSize)]

\* a Range header honoured whatever the resource class
rangeHonouredAnyClass(range, resourceType) == range # Undefined /\ range[1] # <<>>

\* if (range && resourceType === 'videos')
rangeHonoured(range, resourceType) ==
  range # Undefined /\ range[1] # <<>> /\ resourceType = <<"videos">>

\* the handler after stat: Range handling and the two responses;
\* createReadStream throws a RangeError unless 0 <= start <= end
respond(resourceType, range, fileSize) ==
  IF rangeHonoured(range, resourceType) /\ match(range[1]) # Undefined
  THEN LET matches == match(range[1])[1]
           start == parseInt(matches.g1)
           end == IF matches.g2 # <<>> THEN parseInt(matches.g2) ELSE fileSize - 1
       IN IF start > end THEN ErrorResponse(500)
          ELSE PartialResponse(start, end, fileSize)
  ELSE FullResponse(resourceType, fileSize)

\* a catch that answers every error 500
catchAll500(code) == ErrorResponse(500)

\* catch (error): ENOENT is answered 404, anything else 500
catch(code) == IF code = "ENOENT" THEN ErrorResponse(404) ELSE ErrorResponse(500)

ReqDone(r, res) == [r EXCEPT !.pc = "done", !.res = res]

\* the handler from `new URL(request.url)` up to `await fileExists(filePath)`;
\* decodeURIComponent is outside the try: its URIError is answered 500 by
\* the framework
routed(r0, pathname) ==
  LET pathParts == pathPartsOf(pathname)
      r == [r0 EXCEPT !.pathname = pathname]
  IN IF Len(pathParts) < 2 THEN ReqDone(r, ErrorResponse(400))
     ELSE LET resourceType == pathParts[1]
              fileName == decodeURIComponent(join(Tail(pathParts)))
              r2 == [r EXCEPT !.resourceType = resourceType, !.fileName = fileName]
          IN IF resourceType \notin ResourceTypes THEN ReqDone(r2, ErrorResponse(400))
             ELSE IF uriMalformed(join(Tail(pathParts)))
                  THEN ReqDone([r EXCEPT !.resourceType = resourceType], ErrorResponse(500))
             ELSE IF traversal(fileName) THEN ReqDone(r2, ErrorResponse(400))
             ELSE [r2 EXCEPT !.pc = "exists"]

\* GET arrives: the handler runs up to `await fileExists(filePath)`
GetRequest ==
  /\ req.pc = "idle"
  /\ \E pathname \in Pathnames : req' = routed(req, pathname)
  /\ UNCHANGED <<dirFiles, noStat, thumbs, now, regen, probeCalls, list, calls, asset, dirs, batch, post, generator, calc, script>>

\* fileExists(filePath) answers
GetExists ==
  /\ req.pc = "exists"
  /\ req' = IF asset.exists THEN [req EXCEPT !.pc = "stat", !.fsCalls = @ + 1]
            ELSE ReqDone([req EXCEPT !.fsCalls = @ + 1], ErrorResponse(404))
  /\ UNCHANGED <<dirFiles, noStat, thumbs, now, regen, probeCalls, list, calls, asset, dirs, batch, post, generator, calc, script>>

\* stat(filePath) answers (ENOENT when the file is gone, or another error);
\* on success the Range header is read and the response is built
GetStat ==
  /\ req.pc = "stat"
  /\ \/ /\ ~asset.exists
        /\ req' = ReqDone([req EXCEPT !.fsCalls = @ + 1], catch("ENOENT"))
     \/ /\ asset.exists
        /\ req' = ReqDone([req EXCEPT !.fsCalls = @ + 1], catch("EIO"))
     \/ /\ asset.exists
        /\ \E range \in RangeHeaders :
             req' = ReqDone([req EXCEPT !.fsCalls = @ + 2, !.range = range,
                                        !.fileSize = Some(asset.size)],
                            respond(req.resourceType, range, asset.size))
  /\ UNCHANGED <<dirFiles, noStat, thumbs, now, regen, probeCalls, list, calls, asset, dirs, batch, post, generator, calc, script>>

\* the file the request names is removed by someone else
RemoveAsset ==
  /\ asset.exists
  /\ req.pc # "done"
  /\ asset' = [asset EXCEPT !.exists = FALSE]
  /\ UNCHANGED <<dirFiles, noStat, thumbs, now, regen, probeCalls, list, calls, req, dirs, batch, post, generator, calc, script>>

InitRoute ==
  /\ dirFiles = <<>>
  /\ noStat = {}
  /\ thumbs = <<>>
  /\ now = 0
  /\ regen = RegenIdle
  /\ probeCalls = 0
  /\ list = ListIdle
  /\ calls = <<>>
  /\ req = ReqIdle
  /\ asset \in [exists : BOOLEAN, size : 0..MaxFileSize]
  /\ dirs = AllDirs
  /\ batch = BatchIdle
  /\ post = PostIdle
  /\ generator = TRUE
  /\ calc = CalcIdle
  /\ script = ScriptIdle

NextRoute == GetRequest \/ GetExists \/ GetStat \/ RemoveAsset

SpecRoute == InitRoute /\ [][NextRoute]_vars

\* the request names a resource class and a decoded file name
HasName(r) == Len(pathPartsOf(r.pathname)) >= 2

DecodedName(r) == decodeURIComponent(join(Tail(pathPartsOf(r.pathname))))

\* the name has a parent-directory segment
HasParentSegment(name) == \E i \in 1..Len(split(name)) : split(name)[i] = <<".", ".">>

\* C5: a GET whose resource class is not videos, thumbnails or processed, or
\* whose decoded file name contains a parent-directory segment or starts
\* with '/', is answered 400 and no filesystem call is made for it.
C5_InvalidPathRejectedBeforeFs ==
  (/\ req.pc # "idle"
   /\ HasName(req)
   /\ \/ pathPartsOf(req.pathname)[1] \notin {<<"videos">>, <<"thumbnails">>, <<"processed">>}
      \/ HasParentSegment(DecodedName(req))
      \/ DecodedName(req)[1] = "/")
  => (req.pc = "done" /\ req.res.status = 400 /\ req.fsCalls = 0)

\* a traversal attempt on a valid resource class has been rejected
C5_Witness ==
  /\ req.pc = "done"
  /\ req.resourceType \in ResourceTypes
  /\ HasParentSegment(req.fileName)
  /\ req.res.status = 400

Digit(n) == CASE n = 0 -> "0" [] n = 2 -> "2"

\* the response is the 206 for the span start..end of a file of fileSize bytes
IsPartial(res, start, end, fileSize) ==
  /\ res.status = 206
  /\ res.contentRange = Some([start |-> start, end |-> end, size |-> fileSize])
  /\ res.contentLength = Some(end - start + 1)
  /\ res.acceptRanges = Some("bytes")
  /\ res.body = [k \in 1..(end - start + 1) |-> start + k - 1]

\* C6: for the videos class and Range bytes=s-e with 0 <= s <= e < fileSize
\* the response is 206 with Content-Range 'bytes s-e/fileSize',
\* Content-Length e-s+1, Accept-Ranges bytes and exactly the bytes s..e;
\* an omitted e is taken as fileSize-1.
C6_RangeServed ==
  (req.pc = "done" /\ req.resourceType = <<"videos">> /\ req.fileSize # Undefined) =>
    \A s, e \in {0, 2} :
      /\ (req.range = Some(<<"bytes=", Digit(s), "-", Digit(e)>>) /\ s <= e /\ e < req.fileSize[1])
           => IsPartial(req.res, s, e, req.fileSize[1])
      /\ (req.range = Some(<<"bytes=", Digit(s), "-">>) /\ s < req.fileSize[1])
           => IsPartial(req.res, s, req.fileSize[1] - 1, req.fileSize[1])

\* bytes=0-0 of a three-byte video has been served
C6_Witness ==
  /\ req.pc = "done"
  /\ req.resourceType = <<"videos">>
  /\ req.range = Some(<<"bytes=", "0", "-", "0">>)
  /\ req.fileSize = Some(3)
  /\ req.res.status = 206

\* C7: a GET for a valid class and name whose file does not exist is
\* answered 404 and never 500, also when the file goes away between the
\* existence check and the stat.
C7_MissingFileIs404 ==
  [][(req.pc \in {"exists", "stat"} /\ ~asset.exists /\ req'.pc = "done")
       => req'.res.status = 404]_vars

\* the file was there at the existence check, gone at the stat, answered 404
C7_Witness ==
  /\ req.pc = "done"
  /\ req.fsCalls = 2
  /\ ~asset.exists
  /\ req.res.status = 404

\* C8: every successful response for the videos class, the full 200 and the
\* partial 206, is marked non-cacheable; every successful response for
\* thumbnails or processed is marked long-lived and immutable.
C8_CachePolicy ==
  (req.pc = "done" /\ req.res.status \in {200, 206}) =>
    req.res.cacheControl =
      Some(IF req.resourceType = <<"videos">> THEN "no-store, max-age=0"
           ELSE "public, max-age=31536000, immutable")

\* C9: without a Range header, or for thumbnails or processed whatever the
\* Range header, the whole file is served with status 200, Content-Length
\* equal to the file size and Accept-Ranges bytes; a Range header is
\* honoured only for the videos class.
C9_FullFileUnlessVideoRange ==
  (req.pc = "done" /\ req.fileSize # Undefined) =>
    /\ (req.range = Undefined \/ req.resourceType \in {<<"thumbnails">>, <<"processed">>})
         => /\ req.res.status = 200
            /\ req.res.contentLength = req.fileSize
            /\ req.res.acceptRanges = Some("bytes")
            /\ req.res.body = [k \in 1..req.fileSize[1] |-> k - 1]
    /\ req.res.status = 206 => req.resourceType = <<"videos">>

\* a thumbnail requested with Range bytes=0-0 has been served whole
C9_Witness ==
  /\ req.pc = "done"
  /\ req.resourceType = <<"thumbnails">>
  /\ req.range = Some(<<"bytes=", "0", "-", "0">>)
  /\ req.fileSize = Some(3)
  /\ req.res.status = 200
  /\ Len(req.res.body) = 3

\* ------------------------------------- ensureThumbnail on its own ----
\* the video the direct calls are about, and the durations they pass
ThumbFile == <<"a", ".", "mp4">>

Durations == {Undefined, Some(0), Some(7)}

\* ensureThumbnail(file, duration, force) is called
ThumbCall ==
  /\ Len(calls) < MaxCalls
  /\ \E duration \in Durations, force \in BOOLEAN :
       calls' = Append(calls, EtCall(ThumbFile, duration, force))
  /\ UNCHANGED <<dirFiles, noStat, thumbs, now, regen, probeCalls, list, req, asset, dirs, batch, post, generator, calc, script>>

\* time passes
Tick ==
  /\ now < MaxTime
  /\ now' = now + 1
  /\ UNCHANGED <<dirFiles, noStat, thumbs, regen, probeCalls, list, calls, req, asset, dirs, batch, post, generator, calc, script>>

InitThumb ==
  /\ dirFiles = <<ThumbFile>>
  /\ noStat = {}
  /\ thumbs \in {[n \in S |-> 0] : S \in SUBSET {thumbnailName(ThumbFile), thumbVariantName(ThumbFile)}}
  /\ now = 0
  /\ regen = RegenIdle
  /\ probeCalls = 0
  /\ list = ListIdle
  /\ calls = <<>>
  /\ req = ReqIdle
  /\ asset = AssetNone
  /\ dirs = AllDirs
  /\ batch = BatchIdle
  /\ post = PostIdle
  /\ generator = TRUE
  /\ calc = CalcIdle
  /\ script = ScriptIdle

NextThumb == ThumbCall \/ (\E c \in 1..Len(calls) : CallStep(c)) \/ Tick

SpecThumb == InitThumb /\ [][NextThumb]_vars

\* call c returns in this step
Returns(c) == calls[c].pc # "ret" /\ calls'[c].pc = "ret"

\* C10 as stated: after ensureThumbnail(file, duration, force=true) returns,
\* a thumbnail file of the video exists on disk, for every duration argument
\* and every capture outcome.
C10_ForcedLeavesThumbnail ==
  [][\A c \in 1..Len(calls) :
       (calls[c].force /\ Returns(c)) =>
         \/ thumbnailName(calls[c].file) \in DOMAIN thumbs'
         \/ thumbVariantName(calls[c].file) \in DOMAIN thumbs']_vars

\* C10 as amended: a forced ensureThumbnail that returns a URL leaves
\* <base>.jpg on disk and has had a positive duration and a successful
\* capture; with the duration absent or not positive it captures nothing and
\* returns no URL.
C10_ForcedThumbnailWhenUrl ==
  [][\A c \in 1..Len(calls) :
       (calls[c].force /\ Returns(c)) =>
         /\ calls'[c].url # Undefined =>
              /\ getBaseName(calls[c].file) \o <<".", "jpg">> \in DOMAIN thumbs'
              /\ calls[c].duration # Undefined /\ calls[c].duration[1] > 0
              /\ calls'[c].captures = 1
         /\ (calls[c].duration = Undefined \/ calls[c].duration[1] <= 0) =>
              (calls'[c].url = Undefined /\ calls'[c].captures = 0 /\ ~calls'[c].threw)]_vars

\* a forced call has returned a URL and the thumbnail is on disk
C10_Witness ==
  \E c \in 1..Len(calls) :
    /\ calls[c].force
    /\ calls[c].pc = "ret"
    /\ calls[c].url # Undefined
    /\ thumbnailName(calls[c].file) \in DOMAIN thumbs

\* ------------------------------- the thumbnail makers, one at a time ----
\* only <base>.jpg is looked for
thumbnailExistsPlainOnly(th, videoFile) == thumbnailName(videoFile) \in DOMAIN th

\* thumbnailExists(videoFile) of the batch script: fileExists on <base>.jpg,
\* then on <base>_thumb.jpg
thumbnailExists(th, videoFile) ==
  thumbnailName(videoFile) \in DOMAIN th \/ thumbVariantName(videoFile) \in DOMAIN th

\* no call of ensureThumbnail and no processVideo is under way
Quiet ==
  /\ \A c \in 1..Len(calls) : calls[c].pc = "ret"
  /\ batch.pc \in {"idle", "done"}

\* ensureThumbnail(file, duration, force) is called once every earlier call
\* has returned
ThumbCallNext == Quiet /\ ThumbCall

\* the batch script calls processVideo(videoFile)
BatchCall ==
  /\ Quiet
  /\ batch.pc = "idle"
  /\ batch' = [batch EXCEPT !.pc = "check", !.file = ThumbFile]
  /\ UNCHANGED <<dirFiles, noStat, thumbs, now, regen, probeCalls, list, calls, req, asset, dirs, post, generator, calc, script>>

\* processVideo: thumbnailExists answers; if (exists) return skipped
BatchCheck ==
  /\ batch.pc = "check"
  /\ batch' = IF thumbnailExists(thumbs, batch.file)
              THEN [batch EXCEPT !.pc = "done", !.skipped = TRUE, !.success = TRUE]
              ELSE [batch EXCEPT !.pc = "generate"]
  /\ UNCHANGED <<dirFiles, noStat, thumbs, now, regen, probeCalls, list, calls, req, asset, dirs, post, generator, calc, script>>

\* error.message of a failed capture; it can be the empty string
ErrorMessages == {<<>>, <<"ffmpeg exited with code 1">>}

\* processVideo: the duration probe picks the offset (the default offset when
\* it fails), then generateThumbnail writes <base>.jpg or fails
BatchGenerate ==
  /\ batch.pc = "generate"
  /\ \/ /\ thumbs' = writeThumb(thumbs, thumbnailName(batch.file), now)
        /\ batch' = [batch EXCEPT !.pc = "done", !.captures = @ + 1, !.success = TRUE]
     \/ /\ thumbs' = thumbs
        /\ \E message \in ErrorMessages :
             batch' = [batch EXCEPT !.pc = "done", !.captures = @ + 1, !.success = FALSE,
                                    !.error = Some(message)]
  /\ UNCHANGED <<dirFiles, noStat, now, regen, probeCalls, list, calls, req, asset, dirs, post, generator, calc, script>>

NextThumbSeq ==
  \/ ThumbCallNext
  \/ \E c \in 1..Len(calls) : CallStep(c)
  \/ BatchCall \/ BatchCheck \/ BatchGenerate
  \/ Tick

SpecThumbSeq == InitThumb /\ [][NextThumbSeq]_vars

\* C11: two successive calls ensureThumbnail(file, duration, force=true)
\* that return a URL return URLs with different version tokens.
C11_ForcedTokensDiffer ==
  \A c \in 1..(Len(calls) - 1) :
    ( /\ calls[c].force /\ calls[c].pc = "ret" /\ calls[c].url # Undefined
      /\ calls[c+1].force /\ calls[c+1].pc = "ret" /\ calls[c+1].url # Undefined )
    => calls[c].url[1].v # calls[c+1].url[1].v

\* the candidate a reader of the cache is answered with: <base>.jpg first
Preferred(file) ==
  IF (getBaseName(file) \o <<".", "jpg">>) \in DOMAIN thumbs
  THEN getBaseName(file) \o <<".", "jpg">>
  ELSE getBaseName(file) \o <<"_thumb", ".", "jpg">>

\* C12: when <base>.jpg or <base>_thumb.jpg of the video exists, a
\* non-forced ensureThumbnail runs no capture, leaves the thumbnails
\* directory as it is, does not throw and returns the URL of that file
\* (<base>.jpg when both exist) with its mtime in whole milliseconds as the
\* version; processVideo of the batch script captures nothing, leaves the
\* directory as it is and reports the video as skipped.
C12_CachedThumbnailReused ==
  [][Preferred(ThumbFile) \in DOMAIN thumbs =>
       /\ \A c \in 1..Len(calls) :
            (~calls[c].force /\ calls[c].pc \in {"start", "stat1", "exists2", "stat2"}) =>
              /\ thumbs' = thumbs
              /\ calls'[c].captures = 0
              /\ calls'[c].pc \in {"start", "stat1", "exists2", "stat2", "ret"}
              /\ ~calls'[c].threw
              /\ calls'[c].pc = "ret" =>
                   calls'[c].url =
                     Some([path |-> <<"/", "thumbnails", "/">> \o Preferred(ThumbFile),
                           v |-> thumbs[Preferred(ThumbFile)] \div TicksPerMs])
       /\ batch.pc \in {"check", "generate"} =>
            /\ thumbs' = thumbs
            /\ batch'.captures = 0
            /\ batch'.pc # "generate"
            /\ batch'.pc = "done" => (batch'.skipped /\ batch'.success)]_vars

\* only <base>_thumb.jpg exists; a non-forced call has
\* returned its URL and the batch script has skipped the video
C12_Witness ==
  /\ DOMAIN thumbs = {thumbVariantName(ThumbFile)}
  /\ batch.pc = "done" /\ batch.skipped /\ batch.captures = 0
  /\ \E c \in 1..Len(calls) :
       /\ ~calls[c].force /\ calls[c].pc = "ret" /\ calls[c].captures = 0
       /\ calls[c].url # Undefined
       /\ calls[c].url[1].path = <<"/", "thumbnails", "/", "a", "_thumb", ".", "jpg">>

\* ------------- one video: listing, regeneration and a forced call ----
\* getAllVideos, regenerateMetadata and a forced ensureThumbnail at work on
\* the same video and the same thumbnails directory
NextMeta == NextRegen \/ NextList

SpecMeta == InitThumb /\ [][NextMeta]_vars

NotPositive(duration) == duration = Undefined \/ duration[1] <= 0

\* the step ends the activation e of ensureThumbnail inside regenerateMetadata
RegenThumbEnds == regen.pc = "thumb" /\ regen'.pc # "thumb"

\* the step ends the activation of ensureThumbnail inside task k of getAllVideos
TaskThumbEnds(k) == list.tasks[k].pc = "thumb" /\ list'.tasks[k].pc = "done"

\* C13 as stated: when the duration is absent or not positive, ensureThumbnail
\* raises no error and the record is produced without a thumbnailUrl.
C13_NoDurationNoUrl ==
  [][/\ (RegenThumbEnds /\ NotPositive(regen.et.duration)) =>
          /\ ~regen'.threw
          /\ regen'.videos[Len(regen'.videos)].thumbnailUrl = Undefined
     /\ \A k \in 1..Len(list.tasks) :
          (TaskThumbEnds(k) /\ NotPositive(list.tasks[k].et.duration)) =>
            /\ ~list'.tasks[k].threw
            /\ list'.tasks[k].value[1].thumbnailUrl = Undefined]_vars

\* C13 as amended: an ensureThumbnail that is past its cache lookup (forced,
\* or no candidate found) returns no URL and raises no error when the
\* duration is absent or not positive or when the capture fails, and the
\* caller still produces the record, with the probed duration and no
\* thumbnailUrl; a non-forced call that finds a candidate returns its URL
\* whatever the duration is, and it is the only one that can raise (stat of a
\* candidate that has just been removed).
C13_NoUrlPastLookup ==
  [][/\ RegenThumbEnds =>
          LET e == regen.et
              v == regen'.videos[Len(regen'.videos)]
          IN IF regen'.threw THEN e.pc \in {"stat1", "stat2"} /\ ~e.force
             ELSE /\ Len(regen'.videos) = Len(regen.videos) + 1
                  /\ v.fileName = e.file /\ v.duration = e.duration
                  /\ (e.pc \in {"rm2", "exists2"} /\ NotPositive(e.duration)) =>
                       v.thumbnailUrl = Undefined
                  /\ e.pc = "capture" => v.thumbnailUrl = Undefined
                  /\ (NotPositive(e.duration) /\ v.thumbnailUrl # Undefined) =>
                       (e.pc \in {"stat1", "stat2"} /\ e.captures = 0)
     /\ \A k \in 1..Len(list.tasks) :
          TaskThumbEnds(k) =>
            LET e == list.tasks[k].et
                t == list'.tasks[k]
            IN IF t.threw THEN e.pc \in {"stat1", "stat2"} /\ ~e.force
               ELSE /\ t.value # Undefined
                    /\ t.value[1].fileName = e.file /\ t.value[1].duration = e.duration
                    /\ (e.pc \in {"rm2", "exists2"} /\ NotPositive(e.duration)) =>
                         t.value[1].thumbnailUrl = Undefined
                    /\ e.pc = "capture" => t.value[1].thumbnailUrl = Undefined
                    /\ (NotPositive(e.duration) /\ t.value[1].thumbnailUrl # Undefined) =>
                         (e.pc \in {"stat1", "stat2"} /\ e.captures = 0)
     /\ \A c \in 1..Len(calls) :
          Returns(c) =>
            /\ calls'[c].threw => (calls[c].pc \in {"stat1", "stat2"} /\ ~calls[c].force)
            /\ (calls[c].pc = "capture"
                \/ (calls[c].pc \in {"rm2", "exists2"} /\ NotPositive(calls[c].duration))) =>
                 (calls'[c].url = Undefined /\ ~calls'[c].threw)]_vars

\* regenerateMetadata has returned a record without duration and without
\* thumbnailUrl, and getAllVideos a record with a duration and, its capture
\* having failed, without thumbnailUrl
C13_Witness ==
  /\ regen.pc = "done" /\ ~regen.threw /\ Len(regen.result.videos) = 1
  /\ regen.result.videos[1].duration = Undefined
  /\ regen.result.videos[1].thumbnailUrl = Undefined
  /\ list.pc = "done" /\ Len(list.videos) = 1
  /\ list.videos[1].duration # Undefined /\ list.videos[1].duration[1] > 0
  /\ list.tasks[1].et.captures = 1
  /\ list.videos[1].thumbnailUrl = Undefined

\* ------------------------------ POST /api/sprite, POST /api/thumbnail ----
\* JSON values as the handlers see them
JsUndefined == [t |-> "undefined", str |-> <<>>, num |-> 0, bool |-> FALSE]

JsNull == [JsUndefined EXCEPT !.t = "null"]

JsString(str) == [JsUndefined EXCEPT !.t = "string", !.str = str]

JsNumber(n) == [JsUndefined EXCEPT !.t = "number", !.num = n]

JsBoolean(b) == [JsUndefined EXCEPT !.t = "boolean", !.bool = b]

JsObject == [JsUndefined EXCEPT !.t = "object"]

\* !x is false
truthy(x) ==
  CASE x.t = "string" -> x.str # <<>>
    [] x.t = "number" -> x.num # 0
    [] x.t = "boolean" -> x.bool
    [] x.t = "object" -> TRUE
    [] OTHER -> FALSE

typeof(x) == IF x.t = "null" THEN "object" ELSE x.t

\* what request.json() can meet: text that is not JSON (it rejects), the
\* JSON null, or an object whose fileName member is absent or has any type
Bodies ==
  {[kind |-> "malformed", fileName |-> JsUndefined],
   [kind |-> "null", fileName |-> JsUndefined]}
  \cup {[kind |-> "object", fileName |-> x] :
          x \in {JsUndefined, JsNull, JsString(<<>>), JsString(ThumbFile),
                 JsString(<<"b", ".", "mp4">>), JsString(<<"my", ".", "b", ".", "c", ".", "mkv">>),
                 JsString(<<".", ".", "/", "secret", ".", "mp4">>), JsNumber(0), JsNumber(5),
                 JsBoolean(FALSE), JsBoolean(TRUE), JsObject}}

\* body?.fileName
fileNameOf(body) == IF body.kind = "object" THEN body.fileName ELSE JsUndefined

\* !fileName || typeof fileName !== "string"
invalidFileName(fileName) == ~truthy(fileName) \/ typeof(fileName) # "string"

\* NextResponse.json(..., { status }) is returned
PostDone(p, status, ok) == [p EXCEPT !.pc = "done", !.status = status, !.ok = ok]

RECURSIVE normalize(_, _)
\* path.normalize, segment by segment: '..' drops the segment before it
normalize(segments, path) ==
  IF segments = <<>> THEN path
  ELSE IF Head(segments) = <<".", ".">>
       THEN normalize(Tail(segments),
                      IF path = <<>> \/ path[Len(path)] = <<".", ".">>
                      THEN Append(path, <<".", ".">>)
                      ELSE SubSeq(path, 1, Len(path) - 1))
       ELSE IF Head(segments) = <<".">> THEN normalize(Tail(segments), path)
       ELSE normalize(Tail(segments), Append(path, Head(segments)))

\* join(videosDir, fileName), as segments below the storage root
videoPathOf(fileName) == normalize(filterBoolean(split(fileName)), << <<"videos">> >>)

\* the handler up to its first await after request.json(): the sprite route
\* goes on to fileExists(videoPath), the thumbnail route that runs the script
\* itself to execAsync(command), the other one to regenerateThumbnail
postValidated(p, route, body) ==
  LET q == [p EXCEPT !.route = route, !.body = Some(body)]
  IN IF body.kind = "malformed" THEN PostDone(q, 500, FALSE)
     ELSE IF invalidFileName(fileNameOf(body)) THEN PostDone(q, 400, FALSE)
     ELSE IF route = "sprite"
          THEN [q EXCEPT !.pc = "video", !.videoPath = Some(videoPathOf(fileNameOf(body).str))]
     ELSE IF route = "thumbnail-exec"
          THEN [q EXCEPT !.pc = "exec", !.spawned = @ + 1,
                         !.videoPath = Some(videoPathOf(fileNameOf(body).str))]
     ELSE [q EXCEPT !.pc = "regenerate"]

\* sprite: fileExists(videoPath) has answered
spriteVideoChecked(p, exists) ==
  IF exists THEN [p EXCEPT !.pc = "script", !.fsCalls = @ + 1]
  ELSE PostDone([p EXCEPT !.fsCalls = @ + 1], 404, FALSE)

\* the generator is spawned before the script is looked for
spriteScriptCheckedLate(p, scriptExists) ==
  IF scriptExists THEN [p EXCEPT !.pc = "running", !.fsCalls = @ + 1, !.spawned = @ + 1]
  ELSE PostDone([p EXCEPT !.fsCalls = @ + 1, !.spawned = @ + 1], 500, FALSE)

\* sprite: fileExists(scriptPath) has answered; spawn(pythonCmd, args)
spriteScriptChecked(p, scriptExists) ==
  IF scriptExists THEN [p EXCEPT !.pc = "running", !.fsCalls = @ + 1, !.spawned = @ + 1]
  ELSE PostDone([p EXCEPT !.fsCalls = @ + 1], 500, FALSE)

\* what the close event carries: an exit code, or null when the child was
\* ended by a signal
ExitCodes == {Some(0), Some(1), Undefined}

\* code ?? 0
exitCodeOf(code) == IF code = Undefined THEN 0 ELSE code[1]

\* sprite: the child has closed; stat(processedDir) errors are swallowed
spriteClosed(p, code) ==
  IF exitCodeOf(code) # 0 THEN PostDone([p EXCEPT !.code = code], 500, FALSE)
  ELSE PostDone([p EXCEPT !.code = code], 200, TRUE)

\* a POST arrives
PostRequest ==
  /\ post.pc = "idle"
  /\ \E route \in {"sprite", "thumbnail", "thumbnail-exec"}, body \in Bodies :
       post' = postValidated(post, route, body)
  /\ UNCHANGED <<dirFiles, noStat, thumbs, now, regen, probeCalls, list, calls, req, asset, dirs, batch, generator, calc, script>>

PostVideo ==
  /\ post.pc = "video"
  /\ post' = spriteVideoChecked(post, asset.exists)
  /\ UNCHANGED <<dirFiles, noStat, thumbs, now, regen, probeCalls, list, calls, req, asset, dirs, batch, generator, calc, script>>

PostScript ==
  /\ post.pc = "script"
  /\ post' = spriteScriptChecked(post, generator)
  /\ UNCHANGED <<dirFiles, noStat, thumbs, now, regen, probeCalls, list, calls, req, asset, dirs, batch, generator, calc, script>>

PostClose ==
  /\ post.pc = "running"
  /\ \E code \in ExitCodes : post' = spriteClosed(post, code)
  /\ UNCHANGED <<dirFiles, noStat, thumbs, now, regen, probeCalls, list, calls, req, asset, dirs, batch, generator, calc, script>>

\* fileName.split('.')[0]
firstPart(fileName) ==
  IF \E i \in 1..Len(fileName) : fileName[i] = "."
  THEN SubSeq(fileName, 1, (CHOOSE i \in 1..Len(fileName) :
                              fileName[i] = "." /\ \A j \in 1..(i - 1) : fileName[j] # ".") - 1)
  ELSE fileName

\* thumbnail, run by the handler itself: execAsync(command) rejects (the
\* script exits with an error), or resolves with or without text on stderr;
\* `/thumbnails/${fileName.split('.')[0]}.jpeg` is answered, with no version
\* token. The script writes below public/, not into the storage root.
PostExec ==
  /\ post.pc = "exec"
  /\ \/ post' = PostDone(post, 500, FALSE)
     \/ post' = PostDone([post EXCEPT !.thumbnailUrl =
                            Some([path |-> <<"/", "thumbnails", "/">>
                                             \o firstPart(post.body[1].fileName.str)
                                             \o <<".", "jpeg">>,
                                  versioned |-> FALSE, v |-> 0])], 200, TRUE)
  /\ UNCHANGED <<dirFiles, noStat, thumbs, now, regen, probeCalls, list, calls, req, asset, dirs, batch, generator, calc, script>>

\* thumbnail: VideoService.regenerateThumbnail(fileName) answers a URL (the
\* thumbnail has been rewritten), answers nothing, or rejects
PostRegenerate ==
  /\ post.pc = "regenerate"
  /\ \/ /\ thumbs' = writeThumb(thumbs, thumbnailName(post.body[1].fileName.str), now)
        /\ post' = PostDone([post EXCEPT !.thumbnailUrl =
                               Some([path |-> <<"/", "thumbnails", "/">>
                                                \o thumbnailName(post.body[1].fileName.str),
                                     versioned |-> TRUE, v |-> now \div TicksPerMs])],
                            200, TRUE)
     \/ /\ thumbs' = rm(thumbs, thumbnailName(post.body[1].fileName.str))
        /\ post' = PostDone(post, 500, FALSE)
     \/ /\ thumbs' = thumbs
        /\ post' = PostDone(post, 500, FALSE)
  /\ UNCHANGED <<dirFiles, noStat, now, regen, probeCalls, list, calls, req, asset, dirs, batch, generator, calc, script>>

\* the generator script is removed or installed by someone else
ToggleGenerator ==
  /\ post.pc # "done"
  /\ generator' = ~generator
  /\ UNCHANGED <<dirFiles, noStat, thumbs, now, regen, probeCalls, list, calls, req, asset, dirs, batch, post, calc, script>>

InitPost ==
  /\ dirFiles = <<ThumbFile>>
  /\ noStat = {}
  /\ thumbs \in {[n \in S |-> 0] : S \in SUBSET {thumbnailName(ThumbFile), thumbVariantName(ThumbFile)}}
  /\ now = 0
  /\ regen = RegenIdle
  /\ probeCalls = 0
  /\ list = ListIdle
  /\ calls = <<>>
  /\ req = ReqIdle
  /\ asset \in [exists : BOOLEAN, size : {0}]
  /\ dirs = AllDirs
  /\ batch = BatchIdle
  /\ post = PostIdle
  /\ generator \in BOOLEAN
  /\ calc = CalcIdle
  /\ script = ScriptIdle

NextPost ==
  PostRequest \/ PostVideo \/ PostScript \/ PostClose \/ PostRegenerate \/ PostExec
    \/ RemoveAsset \/ ToggleGenerator

SpecPost == InitPost /\ [][NextPost]_vars

\* C14: the sprite request spawns the generator only after fileExists has
\* answered true for the video and then for the script; a missing video is
\* answered 404 and a missing script 500, both without a spawn.
C14_SpawnOnlyAfterChecks ==
  [][/\ (post.pc = "video" /\ ~asset.exists /\ post' # post) =>
          (post'.pc = "done" /\ post'.status = 404 /\ post'.spawned = 0)
     /\ (post.pc = "script" /\ ~generator /\ post' # post) =>
          (post'.pc = "done" /\ post'.status = 500 /\ post'.spawned = 0)
     /\ (post'.route = "sprite" /\ post'.spawned # post.spawned) =>
          /\ post.route = "sprite" /\ post.pc = "script" /\ post.fsCalls = 1
          /\ generator
          /\ post.spawned = 0 /\ post'.spawned = 1]_vars

\* the video was there, the script was not: 500 and nothing was spawned
C14_Witness ==
  /\ post.pc = "done" /\ post.route = "sprite"
  /\ post.fsCalls = 2 /\ post.status = 500 /\ post.spawned = 0

\* C15: the sprite request answers 200 with ok:true only when the generator
\* exited with code 0; a non-zero code and an exit without a code (ended by
\* a signal) are answered 500.
C15_SuccessOnlyOnExitZero ==
  (post.pc = "done" /\ post.route = "sprite" /\ post.spawned = 1) =>
    IF post.code = Some(0) THEN post.status = 200 /\ post.ok
    ELSE post.status = 500 /\ ~post.ok

\* the body carries a fileName that is a non-empty string
HasFileName(body) ==
  body.kind = "object" /\ body.fileName.t = "string" /\ body.fileName.str # <<>>

\* C16: a POST to either route whose body has no fileName, or one that is
\* not a non-empty string, is answered 400 at once, with no spawn and no
\* file created, modified or deleted.
C16_NoFileNameIs400 ==
  [][(post.pc = "idle" /\ post'.pc # "idle" /\ ~HasFileName(post'.body[1])) =>
       /\ post'.pc = "done" /\ post'.status = 400
       /\ post'.spawned = 0 /\ post'.fsCalls = 0
       /\ thumbs' = thumbs]_vars

\* ------------------------------------- the helpers, each on its own ----
\* duration fields a probe output can carry
DurationFields ==
  {DurUndef, DurNaN, DurInf, DurNum(-5), DurNum(0), DurNum(5), DurNum(75)}

StreamLists ==
  { <<>>,
    <<[codec_type |-> "audio", duration |-> DurNum(90)]>>,
    <<[codec_type |-> "audio", duration |-> DurNum(90)],
      [codec_type |-> "video", duration |-> DurNum(75)]>>,
    <<[codec_type |-> "video", duration |-> DurNaN],
      [codec_type |-> "video", duration |-> DurNum(75)]>>,
    <<[codec_type |-> "video", duration |-> DurUndef]>>,
    <<[codec_type |-> "video", duration |-> DurInf]>>,
    <<[codec_type |-> "video", duration |-> DurNum(0)]>>,
    <<[codec_type |-> "video", duration |-> DurNum(129)]>> }

\* what one ffprobe run can answer, over all of these
ProbeMetas == [err : BOOLEAN, format : DurationFields, streams : StreamLists]

\* durations calculateThumbnailTime is applied to, in tenths of a second:
\* every half second up to MaxSeconds, some long ones, NaN and Infinity
TimeInputs ==
  {DurNum(10 * sec + f) : sec \in 0..MaxSeconds, f \in {0, 5}}
  \cup {DurNum(3000), DurNum(36000), DurNum(36650), DurNum(73250), DurNaN, DurInf}

DecDigits == <<"0", "1", "2", "3", "4", "5", "6", "7", "8", "9">>

RECURSIVE toString(_)
\* Number.prototype.toString of a non-negative integer, digit by digit
toString(n) ==
  IF n < 10 THEN <<DecDigits[n + 1]>>
  ELSE toString(n \div 10) \o <<DecDigits[(n % 10) + 1]>>

\* String.prototype.padStart(targetLength, padString) for a one-character pad
padStart(str, targetLength, padString) ==
  IF Len(str) >= targetLength THEN str
  ELSE [i \in 1..(targetLength - Len(str)) |-> padString] \o str

\* `${hours}:${minutes}:${seconds}`, each padded to two digits
render(timestamp) ==
  padStart(toString(timestamp \div 3600), 2, "0") \o <<":">>
    \o padStart(toString((timestamp % 3600) \div 60), 2, "0") \o <<":">>
    \o padStart(toString(timestamp % 60), 2, "0")

\* the upper limit is left out of the picks
picksToUpperBound(lowerBound, upperBound) == lowerBound..(upperBound + 1)

\* Math.floor(lowerBound + Math.random() * (upperBound - lowerBound)), with
\* Math.random() in [0, 1)
picks(lowerBound, upperBound) == lowerBound..Max(lowerBound, upperBound - 1)

\* calculateThumbnailTime(duration): the timestamps it can pick
calculateThumbnailTime(duration) ==
  IF duration.kind # "num" \/ duration.tenths <= 60 THEN {1}
  ELSE LET lowerBound == Min(10, (2 * duration.tenths) \div 100)
           upperBound == Max(lowerBound, (duration.tenths - 50) \div 10)
       IN picks(lowerBound, upperBound)

CalcInput(fn, meta, duration) ==
  [CalcIdle EXCEPT !.pc = "input", !.fn = fn, !.meta = meta, !.duration = duration]

ApplyGetVideoDuration ==
  /\ calc.pc = "input" /\ calc.fn = "getVideoDuration"
  /\ calc' = [calc EXCEPT !.pc = "done", !.out = getVideoDuration(calc.meta[1])]
  /\ UNCHANGED <<dirFiles, noStat, thumbs, now, regen, probeCalls, list, calls, req, asset, dirs, batch, post, generator, script>>

ApplyGetDurationFromStreams ==
  /\ calc.pc = "input" /\ calc.fn = "getDurationFromStreams"
  /\ calc' = [calc EXCEPT !.pc = "done", !.out = getDurationFromStreams(calc.meta[1])]
  /\ UNCHANGED <<dirFiles, noStat, thumbs, now, regen, probeCalls, list, calls, req, asset, dirs, batch, post, generator, script>>

\* getVideoMetadata from the first probe to the end of the catch blocks: out
\* is the value of `duration`, rejected standing for undefined
ApplyGetVideoMetadata ==
  /\ calc.pc = "input" /\ calc.fn = "getVideoMetadata"
  /\ LET duration == probeDuration(calc.meta[1], calc.meta[2])
     IN calc' = [calc EXCEPT !.pc = "done",
                             !.out = IF duration = Undefined THEN Reject
                                     ELSE Resolve(duration[1])]
  /\ UNCHANGED <<dirFiles, noStat, thumbs, now, regen, probeCalls, list, calls, req, asset, dirs, batch, post, generator, script>>

\* regenerateMetadata from `let attempts = 0` to the end of the while loop,
\* one turn at a time, the probe answering the same every time; out is the
\* value of `duration` when the loop is left
ApplyRegenerateTurn ==
  /\ calc.pc = "input" /\ calc.fn = "regenerateMetadata"
  /\ LET r == RetryTurn(calc.retry, getVideoDuration(calc.meta[1]))
     IN calc' = IF RetryAgain(r) THEN [calc EXCEPT !.retry = r]
                ELSE [calc EXCEPT !.pc = "done", !.retry = r,
                                  !.out = IF r.duration = Undefined THEN Reject
                                          ELSE Resolve(r.duration[1])]
  /\ UNCHANGED <<dirFiles, noStat, thumbs, now, regen, probeCalls, list, calls, req, asset, dirs, batch, post, generator, script>>

ApplyCalculateThumbnailTime ==
  /\ calc.pc = "input" /\ calc.fn = "calculateThumbnailTime"
  /\ \E timestamp \in calculateThumbnailTime(calc.duration) :
       calc' = [calc EXCEPT !.pc = "done", !.timestamp = timestamp,
                            !.text = render(timestamp)]
  /\ UNCHANGED <<dirFiles, noStat, thumbs, now, regen, probeCalls, list, calls, req, asset, dirs, batch, post, generator, script>>

InitHelpers ==
  /\ dirFiles = <<>>
  /\ noStat = {}
  /\ thumbs = <<>>
  /\ now = 0
  /\ regen = RegenIdle
  /\ probeCalls = 0
  /\ list = ListIdle
  /\ calls = <<>>
  /\ req = ReqIdle
  /\ asset = AssetNone
  /\ dirs = AllDirs
  /\ batch = BatchIdle
  /\ post = PostIdle
  /\ generator = TRUE
  /\ calc \in {CalcInput(fn, <<meta>>, DurUndef) :
                 fn \in {"getVideoDuration", "getDurationFromStreams"}, meta \in ProbeMetas}
        \cup {CalcInput("getVideoMetadata", <<meta, meta2>>, DurUndef) :
                 meta \in ProbeMetas, meta2 \in ProbeMetas}
        \cup {CalcInput("regenerateMetadata", <<meta>>, DurUndef) : meta \in ProbeMetas}
        \cup {CalcInput("calculateThumbnailTime", <<>>, duration) : duration \in TimeInputs}
  /\ script = ScriptIdle

NextHelpers ==
  ApplyGetVideoDuration \/ ApplyGetDurationFromStreams \/ ApplyGetVideoMetadata
    \/ ApplyCalculateThumbnailTime \/ ApplyRegenerateTurn

SpecHelpers == InitHelpers /\ [][NextHelpers]_vars

\* a positive finite number
PositiveFinite(d) == d.kind = "num" /\ d.tenths > 0

VideoStreamsOf(meta) == SelectSeq(meta.streams, LAMBDA st : st.codec_type = "video")

\* the duration field a probe function reads in the output meta
FieldRead(fn, meta) ==
  IF fn = "getVideoDuration" THEN meta.format
  ELSE IF VideoStreamsOf(meta) = <<>> THEN DurUndef
       ELSE VideoStreamsOf(meta)[1].duration

\* C17: getVideoDuration and getDurationFromStreams accept the value they
\* read only if it is a positive finite number (a missing, NaN, zero,
\* negative or infinite value is rejected), and the accepted value is
\* floored to whole seconds: a finite non-negative integer.
C17_AcceptsPositiveFiniteOnly ==
  (calc.pc = "done" /\ calc.fn \in {"getVideoDuration", "getDurationFromStreams"}) =>
    LET d == FieldRead(calc.fn, calc.meta[1])
    IN calc.out.ok =>
         /\ PositiveFinite(d)
         /\ calc.out.value = d.tenths \div 10
         /\ calc.out.value \in 0..(Infinity - 1)

\* the acceptance rule C17 is about, as the code applies it
Accepted(d) == d.kind = "inf" \/ (d.kind = "num" /\ d.tenths > 0)

Floored(d) == IF d.kind = "inf" THEN Infinity ELSE d.tenths \div 10

Colons(text) == {i \in 1..Len(text) : text[i] = ":"}

RECURSIVE DecValue(_)
\* the number a non-empty run of decimal digits stands for
DecValue(digits) ==
  LET last == CHOOSE n \in 0..9 : DecDigits[n + 1] = digits[Len(digits)]
  IN IF Len(digits) = 1 THEN last
     ELSE 10 * DecValue(SubSeq(digits, 1, Len(digits) - 1)) + last

ensureBaseDirs(d) == d \cup {"videos", "thumbnails", "processed"}

\* getVideoMetadata of that VideoService: no duration is ever read (the Stats
\* object is not JSON) and the thumbnail is assumed to exist, as .jpeg
VideoRecordAssumed(file) ==
  VideoRecord(file, Undefined,
              Some([path |-> <<"/", "thumbnails", "/">> \o getBaseName(file) \o <<".", "jpeg">>,
                    v |-> 0]))

\* getAllVideos of that VideoService: ensureBaseDirs, readdir, one record per
\* supported entry that can be stat-ed
ListCallBaseDirs ==
  /\ list.pc = "idle"
  /\ dirs' = ensureBaseDirs(dirs)
  /\ LET built == SelectSeq(dirFiles, LAMBDA f : supported(f) /\ f \notin noStat)
     IN list' = [list EXCEPT !.pc = "done", !.files = dirFiles,
                             !.videos = [k \in 1..Len(built) |-> VideoRecordAssumed(built[k])]]
  /\ UNCHANGED <<dirFiles, noStat, thumbs, now, regen, probeCalls, calls, req, asset, batch, post, generator, calc, script>>

\* any of the three subdirectories may be missing; without videos/ there is
\* no video, without thumbnails/ no thumbnail
InitDirs ==
  /\ dirs \in SUBSET AllDirs
  /\ dirFiles \in IF "videos" \in dirs THEN {<<>>, <<ThumbFile>>} ELSE {<<>>}
  /\ noStat = {}
  /\ thumbs \in IF "thumbnails" \in dirs THEN ThumbDirs(dirFiles) ELSE {<<>>}
  /\ now = 0
  /\ regen = RegenIdle
  /\ probeCalls = 0
  /\ list = ListIdle
  /\ calls = <<>>
  /\ req = ReqIdle
  /\ asset = AssetNone
  /\ batch = BatchIdle
  /\ post = PostIdle
  /\ generator = TRUE
  /\ calc = CalcIdle
  /\ script = ScriptIdle

NextDirs ==
  \/ ListCall \/ ListCallBaseDirs
  \/ \E k \in 1..Len(list.tasks) : ListProbe(k) \/ ListThumb(k)
  \/ ListReturn
  \/ NextRegen

SpecDirs == InitDirs /\ [][NextDirs]_vars

\* C20: a listing or a regeneration against a storage root that lacks
\* videos/, thumbnails/ or processed/ does not fail, and the directory it
\* needed is there afterwards: videos/ once it has returned, thumbnails/
\* once a thumbnail is stored.
C20_MissingDirsCreated ==
  /\ list.pc = "done" => (~list.threw /\ "videos" \in dirs)
  /\ regen.pc = "done" => (~regen.threw /\ "videos" \in dirs)
  /\ DOMAIN thumbs # {} => "thumbnails" \in dirs

\* ------------------------------------- the batch thumbnail script ----
\* directory entries the script is tried on: two videos that share a base
\* name, a third video, an image and a text file
ScriptFileNames ==
  { <<"a", ".", "mp4">>, <<"a", ".", "MKV">>, <<"b", ".", "webm">>,
    <<"p", ".", "jpg">>, <<"n", ".", "txt">> }

\* files.filter(file => SUPPORTED_FORMATS.includes(getFileExtension(file)))
videoFilesOf(files) ==
  SelectSeq(files, LAMBDA file : getFileExtension(file) \in DOMAIN MIME_TYPES)

\* a failed video is counted and its error is dropped
tallyWithoutError(results, videoFile, result) ==
  IF result.success
  THEN IF result.skipped THEN [results EXCEPT !.skipped = @ + 1]
       ELSE [results EXCEPT !.generated = @ + 1]
  ELSE [results EXCEPT !.failed = @ + 1]

\* the body of the for loop after processVideo has answered
tally(results, videoFile, result) ==
  IF result.success
  THEN IF result.skipped THEN [results EXCEPT !.skipped = @ + 1]
       ELSE [results EXCEPT !.generated = @ + 1]
  ELSE [results EXCEPT !.failed = @ + 1,
          !.errors = Append(@, [file |-> videoFile,
                                error |-> IF result.error = Undefined \/ result.error[1] = <<>>
                                          THEN <<"Unknown error">> ELSE result.error[1]])]

\* main(): ensureThumbnailsDir, readdir(VIDEOS_DIR), the filter; a missing
\* videos directory is the fatal error, an empty selection ends the run
ScriptStart ==
  /\ script.pc = "idle"
  /\ dirs' = dirs \cup {"thumbnails"}
  /\ script' = IF "videos" \notin dirs
               THEN [script EXCEPT !.pc = "done", !.exit = 1]
               ELSE IF videoFilesOf(dirFiles) = <<>> THEN [script EXCEPT !.pc = "done"]
               ELSE [script EXCEPT !.pc = "loop", !.videoFiles = videoFilesOf(dirFiles),
                                   !.i = 1,
                                   !.results = GenerationResults(Len(videoFilesOf(dirFiles)))]
  /\ UNCHANGED <<dirFiles, noStat, thumbs, now, regen, probeCalls, list, calls, req, asset, batch, post, generator, calc>>

\* for (const videoFile of videoFiles): processVideo(videoFile) is called, or
\* the loop is over and the summary is printed
ScriptNext ==
  /\ script.pc = "loop"
  /\ IF script.i > Len(script.videoFiles)
     THEN script' = [script EXCEPT !.pc = "done"] /\ UNCHANGED batch
     ELSE /\ script' = [script EXCEPT !.pc = "await"]
          /\ batch' = [BatchIdle EXCEPT !.pc = "check", !.file = script.videoFiles[script.i]]
  /\ UNCHANGED <<dirFiles, noStat, thumbs, now, regen, probeCalls, list, calls, req, asset, dirs, post, generator, calc>>

\* processVideo has answered: the result is counted, on to the next video
ScriptTally ==
  /\ script.pc = "await"
  /\ batch.pc = "done"
  /\ script' = [script EXCEPT !.pc = "loop", !.i = @ + 1,
                  !.results = tally(@, batch.file, batch),
                  !.processed = Append(@, [file |-> batch.file, success |-> batch.success,
                                           skipped |-> batch.skipped])]
  /\ batch' = BatchIdle
  /\ UNCHANGED <<dirFiles, noStat, thumbs, now, regen, probeCalls, list, calls, req, asset, dirs, post, generator, calc>>

InitScript ==
  /\ dirs \in {AllDirs, AllDirs \ {"thumbnails"}, {"processed"}}
  /\ dirFiles \in IF "videos" \in dirs THEN Listings(ScriptFileNames) ELSE {<<>>}
  /\ noStat = {}
  /\ thumbs \in IF "thumbnails" \in dirs THEN ThumbDirs(dirFiles) ELSE {<<>>}
  /\ now = 0
  /\ regen = RegenIdle
  /\ probeCalls = 0
  /\ list = ListIdle
  /\ calls = <<>>
  /\ req = ReqIdle
  /\ asset = AssetNone
  /\ batch = BatchIdle
  /\ post = PostIdle
  /\ generator = TRUE
  /\ calc = CalcIdle
  /\ script = ScriptIdle

NextScript == ScriptStart \/ ScriptNext \/ BatchCheck \/ BatchGenerate \/ ScriptTally

SpecScript == InitScript /\ [][NextScript]_vars

\* the outcomes recorded for the calls of processVideo that satisfy P
Outcomes(P(_)) == SelectSeq(script.processed, P)

\* C21: the batch script calls processVideo once for every entry that passes
\* the format filter, in directory order, whatever the earlier videos
\* answered; at the end total = generated + skipped + failed, each count is
\* the number of videos with that outcome, and errors has one entry per
\* failed video, in order.
C21_BatchCountsEveryVideo ==
  (script.pc = "done" /\ script.exit = 0) =>
    LET failed == Outcomes(LAMBDA r : ~r.success)
    IN /\ [k \in 1..Len(script.processed) |-> script.processed[k].file]
            = SelectSeq(dirFiles, LAMBDA f : getFileExtension(f) \in DOMAIN MIME_TYPES)
       /\ script.results.total = Len(script.processed)
       /\ script.results.total
            = script.results.generated + script.results.skipped + script.results.failed
       /\ script.results.generated = Len(Outcomes(LAMBDA r : r.success /\ ~r.skipped))
       /\ script.results.skipped = Len(Outcomes(LAMBDA r : r.success /\ r.skipped))
       /\ script.results.failed = Len(failed)
       /\ [k \in 1..Len(script.results.errors) |-> script.results.errors[k].file]
            = [k \in 1..Len(failed) |-> failed[k].file]

\* three videos: the first failed, the second was generated, the third,
\* sharing the base name of the second, was skipped
C21_Witness ==
  /\ script.pc = "done"
  /\ script.results = [total |-> 3, generated |-> 1, skipped |-> 1, failed |-> 1,
                       errors |-> <<[file |-> <<"b", ".", "webm">>,
                                     error |-> <<"Unknown error">>]>>]
  /\ script.processed[1].file = <<"b", ".", "webm">> /\ ~script.processed[1].success
  /\ script.processed[3].skipped

\* ------------------------------- two requests for the same thumbnail ----
\* call c's capture ends well in this step
Captured(c) == calls[c].pc = "capture" /\ calls'[c].pc = "stat3"

\* C22: while only non-forced calls of ensureThumbnail for the video are
\* under way, the thumbnails directory changes only when a capture of one of
\* them ends well, and that step leaves <base>.jpg, and nothing else, with
\* the content and time of that capture, whatever an earlier capture had
\* left there (last writer wins); no capture waits for another call; a call
\* that returns a URL, no <base>_thumb.jpg being there, names <base>.jpg.
C22_LastWriterWins ==
  [][(\A c \in 1..Len(calls) : ~calls[c].force) =>
       /\ thumbs' # thumbs => \E c \in 1..Len(calls) : Captured(c)
       /\ \A c \in 1..Len(calls) :
            /\ Captured(c) =>
                 /\ DOMAIN thumbs' = DOMAIN thumbs \cup {getBaseName(calls[c].file) \o <<".", "jpg">>}
                 /\ thumbs'[getBaseName(calls[c].file) \o <<".", "jpg">>] = now
                 /\ \A n \in DOMAIN thumbs :
                      n # getBaseName(calls[c].file) \o <<".", "jpg">> => thumbs'[n] = thumbs[n]
            /\ calls[c].pc = "capture" => ENABLED CallStep(c)
            /\ (Returns(c) /\ calls'[c].url # Undefined
                  /\ (getBaseName(calls[c].file) \o <<"_thumb", ".", "jpg">>) \notin DOMAIN thumbs) =>
                 calls'[c].url[1].path
                   = <<"/", "thumbnails", "/">> \o getBaseName(calls[c].file) \o <<".", "jpg">>]_vars

\* two non-forced calls for the same video have both run the capture tool
\* and both returned the URL of a.jpg; the file is the later capture's, and
\* the first call's version token is the older one
C22_Witness ==
  /\ Len(calls) = 2
  /\ \A c \in 1..2 :
       /\ ~calls[c].force /\ calls[c].pc = "ret" /\ calls[c].captures = 1
       /\ calls[c].url # Undefined
       /\ calls[c].url[1].path = <<"/", "thumbnails", "/", "a", ".", "jpg">>
  /\ calls[1].url[1].v < calls[2].url[1].v
  /\ DOMAIN thumbs = {<<"a", ".", "jpg">>}
  /\ thumbs[<<"a", ".", "jpg">>] \div TicksPerMs = calls[2].url[1].v

\* -------------------------- a listing beside a forced regeneration ----
\* C23: whatever a concurrent forced regeneration does to a video's
\* thumbnail, every supported entry that can be stat-ed has its record in
\* the result of getAllVideos, and no ensureThumbnail of the listing throws.
C23_ThumbnailFailureKeepsVideo ==
  list.pc = "done" =>
    \A k \in 1..Len(list.files) :
      (supported(list.files[k]) /\ list.files[k] \notin noStat) =>
        /\ ~list.tasks[k].threw
        /\ \E j \in 1..Len(list.videos) : list.videos[j].fileName = list.files[k]

\* ------------------------------------- one probe answer, two readers ----
\* C24: the probe answering meta for the file every time, the duration
\* regenerateMetadata leaves its retry loop with is the duration
\* getVideoMetadata puts on the record: the floored format.duration, else the
\* floored duration of the video stream, else none.
C24_RegenerateReadsAsListing ==
  (calc.pc = "done" /\ calc.fn = "regenerateMetadata") =>
    LET duration == probeDuration(calc.meta[1], calc.meta[1])
    IN calc.out = IF duration = Undefined THEN Reject ELSE Resolve(duration[1])

\* --------------------------------------- the span of a 206 response ----
\* C25: a 206 response carries Content-Range 'bytes s-e/size' with
\* 0 <= s <= e <= size - 1, and its Content-Length is at least 1 and is the
\* number of bytes of its body.
C25_PartialSpanInsideFile ==
  (req.pc = "done" /\ req.res.status = 206) =>
    /\ req.res.contentRange # Undefined /\ req.res.contentLength # Undefined
    /\ req.res.contentRange[1].size = req.fileSize[1]
    /\ 0 <= req.res.contentRange[1].start
    /\ req.res.contentRange[1].start <= req.res.contentRange[1].end
    /\ req.res.contentRange[1].end <= req.fileSize[1] - 1
    /\ req.res.contentLength[1] >= 1
    /\ req.res.contentLength[1] = Len(req.res.body)

\* ----------------------------------- fetching what the listing names ----
\* names a video can have on disk: plain, with a space, with several dots,
\* with two dots in a row, with a '%', with the three characters %20
FetchFileNames ==
  { <<"a", ".", "mp4">>, <<"my", " ", "file", ".", "mp4">>,
    <<"a", ".", "b", ".", "c", ".", "mp4">>, <<"a", ".", ".", "b", ".", "mp4">>,
    <<"50", "%", ".", "mp4">>, <<"a", "%20", "b", ".", "mp4">> }

\* the pathname of the request a client makes for a record's URL: the URL
\* parser percent-encodes a space and keeps '%' and '.' as they are; the
\* rewrite of next.config puts /api in front
requestPathname(url) ==
  <<"/", "api">> \o [i \in 1..Len(url) |-> IF url[i] = " " THEN "%20" ELSE url[i]]

\* the client requests the videoUrl of a record of the listing; the file the
\* handler will look for is there if the decoded name is the name on disk
GetVideoUrl ==
  /\ req.pc = "idle"
  /\ list.pc = "done"
  /\ \E k \in 1..Len(list.videos) :
       /\ req' = routed(req, requestPathname(list.videos[k].videoUrl))
       /\ asset' = IF req'.fileName \in Range(dirFiles)
                   THEN [exists |-> TRUE, size |-> MaxFileSize] ELSE AssetNone
  /\ UNCHANGED <<dirFiles, noStat, thumbs, now, regen, probeCalls, list, calls, dirs, batch, post, generator, calc, script>>

InitFetch ==
  /\ dirFiles \in {<<f>> : f \in FetchFileNames}
  /\ noStat = {}
  /\ thumbs \in ThumbDirs(dirFiles)
  /\ now = 0
  /\ regen = RegenIdle
  /\ probeCalls = 0
  /\ list = ListIdle
  /\ calls = <<>>
  /\ req = ReqIdle
  /\ asset = AssetNone
  /\ dirs = AllDirs
  /\ batch = BatchIdle
  /\ post = PostIdle
  /\ generator = TRUE
  /\ calc = CalcIdle
  /\ script = ScriptIdle

NextFetch ==
  \/ ListCall
  \/ \E k \in 1..Len(list.tasks) : ListProbe(k) \/ ListThumb(k)
  \/ ListReturn
  \/ GetVideoUrl \/ GetExists \/ GetStat

SpecFetch == InitFetch /\ [][NextFetch]_vars

\* C26: a GET of the videoUrl of a record returned by getAllVideos is
\* decoded to the record's file name and is not refused as an invalid path
\* (nor fails while decoding), whatever characters the name has.
C26_VideoUrlFetchesTheFile ==
  req.pc # "idle" =>
    \E k \in 1..Len(list.videos) :
      /\ req.pathname = <<"/", "api", "/", "videos", "/">>
                          \o [i \in 1..Len(list.videos[k].fileName) |->
                                IF list.videos[k].fileName[i] = " " THEN "%20"
                                ELSE list.videos[k].fileName[i]]
      /\ req.fileName = list.videos[k].fileName
      /\ req.pc = "done" => req.res.status \notin {400, 500}

\* ------------------------------------ the file name of a POST body ----
\* isValidFileName of file-utils
isValidFileName(name) ==
  /\ ~includes2(name, ".", ".")
  /\ "/" \notin Range(name) /\ "\\" \notin Range(name)
  /\ \E i \in 1..Len(name) : name[i] # " "

\* C27: the sprite and thumbnail handlers hand a path to fileExists or to a
\* subprocess only if it lies inside the videos directory of the storage
\* root, and never for a fileName with '..' or a path separator.
C27_PostPathInsideVideos ==
  (post.fsCalls > 0 \/ post.spawned > 0) =>
    /\ isValidFileName(post.body[1].fileName.str)
    /\ post.videoPath # Undefined
    /\ Len(post.videoPath[1]) >= 2 /\ post.videoPath[1][1] = <<"videos">>

\* ------------------------------------------ what counts as a video ----
\* one directory entry, listed by getAllVideos and by regenerateMetadata
InitKinds ==
  /\ dirFiles \in {<<f>> : f \in FileNames}
  /\ noStat = {}
  /\ thumbs \in ThumbDirs(dirFiles)
  /\ now = 0
  /\ regen = RegenIdle
  /\ probeCalls = 0
  /\ list = ListIdle
  /\ calls = <<>>
  /\ req = ReqIdle
  /\ asset = AssetNone
  /\ dirs = AllDirs
  /\ batch = BatchIdle
  /\ post = PostIdle
  /\ generator = TRUE
  /\ calc = CalcIdle
  /\ script = ScriptIdle

NextKinds ==
  \/ NextRegen
  \/ ListCall
  \/ \E k \in 1..Len(list.tasks) : ListProbe(k) \/ ListThumb(k)
  \/ ListReturn

SpecKinds == InitKinds /\ [][NextKinds]_vars

\* the record is that of a video: its name ends in '.' and one of the five
\* video formats, in any case, and its MIME type is a video type
VideoKind(v) ==
  /\ Len(v.fileName) >= 2 /\ v.fileName[Len(v.fileName) - 1] = "."
  /\ v.fileName[Len(v.fileName)] \in
       {"mp4", "MP4", "webm", "mov", "avi", "mkv", "MKV"}
  /\ v.mimeType \in {"video/mp4", "video/webm", "video/quicktime",
                     "video/x-msvideo", "video/x-matroska"}

\* C28: every record getAllVideos or regenerateMetadata returns is that of
\* an entry with a video extension: an image (jpg, jpeg, png, webp) or an
\* entry without extension is not listed, and the mimeType is a video type.
C28_OnlyVideosListed ==
  /\ list.pc = "done" => \A k \in 1..Len(list.videos) : VideoKind(list.videos[k])
  /\ regen.pc = "done" =>
       \A k \in 1..Len(regen.result.videos) : VideoKind(regen.result.videos[k])

\* ------------------------------------------- the order of a listing ----
\* C29: whatever order the builds complete in, the names of the list
\* getAllVideos returns are a subsequence of the readdir result, in its
\* order, and no name is there twice.
C29_ListingInDirectoryOrder ==
  list.pc = "done" =>
    /\ FileNamesOf(list.videos)
         = SelectSeq(list.files,
                     LAMBDA f : \E j \in 1..Len(list.videos) : list.videos[j].fileName = f)
    /\ \A i, j \in 1..Len(list.videos) :
         i # j => list.videos[i].fileName # list.videos[j].fileName

\* the build of the second entry settled while the build of the first
\* was still running; the list has the first entry first
C29_Witness ==
  /\ list.pc = "done"
  /\ Len(list.videos) = 2
  /\ list.overtaken
  /\ list.videos[1].fileName = list.files[1]
  /\ list.videos[2].fileName = list.files[2]

\* ---------------------------------- the URL POST /api/thumbnail answers ----
\* the two thumbnails the listing references for a video, and the same
\* base name with the image extension the route's script is asked for
ThumbnailPathsOf(file) ==
  {<<"/", "thumbnails", "/">> \o n :
     n \in {thumbnailName(file), thumbVariantName(file),
            getBaseName(file) \o <<".", "jpeg">>}}

\* C30: the thumbnailUrl POST /api/thumbnail answers names the thumbnail
\* by the video's base name (the file name without its final extension),
\* for every plain file name, names with several dots included.
C30_PostUrlNamesBaseName ==
  (post.pc = "done" /\ post.thumbnailUrl # Undefined
     /\ isValidFileName(post.body[1].fileName.str)) =>
    post.thumbnailUrl[1].path \in ThumbnailPathsOf(post.body[1].fileName.str)

====
